---- MODULE Spec2Model ----
(***************************************************************************)
(* CredRank: the Markov process graph builder (MarkovProcessGraph.new),    *)
(* its chain view and JSON codec, the node gadgets and the cred graph.     *)
(* Transition probabilities are exact rationals <<numerator, denominator>> *)
(* in lowest terms; addresses are sequences of string parts.               *)
(***************************************************************************)
EXTENDS Integers, Sequences, FiniteSets, TLC

\* ------------------------------------------------------------------------
\* Bounds of the model
\* ------------------------------------------------------------------------
\* largest number of input graph edges
MaxEdges == 2
\* largest number of intervals
MaxIntervals == 2
\* largest number of input edges of a graph whose document is altered
MaxForeignEdges == 1

\* ------------------------------------------------------------------------
\* Numbers, and their conversion to and from strings
\* ------------------------------------------------------------------------
\* -Infinity and Infinity, the sentinels of timeBoundaries
NegInf == -99
PosInf == 99
\* the value of +s for a string s that is not a number
NaN == -98

\* the start times an interval can have
StartTimes == {5, 10, 20}

\* the numbers whose String() the model can meet: the time boundaries and
\* the numbers of the input edges
Numbers == {NegInf, PosInf} \cup StartTimes \cup (0..(MaxEdges + 1))

\* String(x) of JavaScript, for the numbers above
String(n) ==
  IF n = NegInf THEN "-Infinity"
  ELSE IF n = PosInf THEN "Infinity"
  ELSE IF n = NaN THEN "NaN"
  ELSE ToString(n)

\* +s of JavaScript: the number a string denotes, NaN if it denotes none
Num(s) ==
  LET denoting == {n \in Numbers : String(n) = s}
  IN  IF denoting = {} THEN NaN ELSE CHOOSE n \in denoting : TRUE

\* ------------------------------------------------------------------------
\* Rational arithmetic for weights and transition probabilities
\* ------------------------------------------------------------------------
Abs(x) == IF x < 0 THEN -x ELSE x

RECURSIVE GCD(_, _)
GCD(a, b) == IF b = 0 THEN a ELSE GCD(b, a % b)

Q(n, d) ==
  LET g == GCD(Abs(n), d)
  IN  <<n \div g, d \div g>>

QInt(n) == <<n, 1>>
QZero == <<0, 1>>
QOne == <<1, 1>>
QAdd(x, y) == Q(x[1] * y[2] + y[1] * x[2], x[2] * y[2])
QSub(x, y) == Q(x[1] * y[2] - y[1] * x[2], x[2] * y[2])
QMul(x, y) == Q(x[1] * y[1], x[2] * y[2])
\* x / y for y > 0
QDiv(x, y) == Q(x[1] * y[2], x[2] * y[1])
QLt(x, y) == x[1] * y[2] < y[1] * x[2]
QLe(x, y) == x[1] * y[2] <= y[1] * x[2]
QAbs(x) == <<Abs(x[1]), x[2]>>

RECURSIVE QSum(_)
QSum(s) == IF s = <<>> THEN QZero ELSE QAdd(s[1], QSum(Tail(s)))

\* ------------------------------------------------------------------------
\* Addresses: sequences of parts, compared as the strings they are
\* ------------------------------------------------------------------------
RECURSIVE Digits(_)
Digits(n) == IF n < 10 THEN <<48 + n>> ELSE Digits(n \div 10) \o <<48 + (n % 10)>>

\* the UTF-16 code units of a part: those of the names the addresses are
\* made of, and the digits of a number
Chars(s) ==
  CASE s = "sourcecred" -> <<115, 111, 117, 114, 99, 101, 99, 114, 101, 100>>
    [] s = "core" -> <<99, 111, 114, 101>>
    [] s = "SEED" -> <<83, 69, 69, 68>>
    [] s = "EPOCH_ACCUMULATOR" -> <<69, 80, 79, 67, 72, 95, 65, 67, 67, 85, 77, 85, 76, 65, 84, 79, 82>>
    [] s = "USER_EPOCH" -> <<85, 83, 69, 82, 95, 69, 80, 79, 67, 72>>
    [] s = "Infinity" -> <<73, 110, 102, 105, 110, 105, 116, 121>>
    [] s = "-Infinity" -> <<45, 73, 110, 102, 105, 110, 105, 116, 121>>
    [] s = "a" -> <<97>>
    [] s = "b" -> <<98>>
    [] s = "p1" -> <<112, 49>>
    [] s = "p2" -> <<112, 50>>
    [] s = "u1" -> <<117, 49>>
    [] s = "u2" -> <<117, 50>>
    [] s = "c" -> <<99>>
    [] s = "e" -> <<101>>
    [] s = "NaN" -> <<78, 97, 78>>
    [] s = "SEED_MINT" -> <<83, 69, 69, 68, 95, 77, 73, 78, 84>>
    [] s = "PAYOUT" -> <<80, 65, 89, 79, 85, 84>>
    [] s = "EPOCH_WEBBING_FORWARD" -> <<69, 80, 79, 67, 72, 95, 87, 69, 66, 66, 73, 78, 71, 95, 70, 79, 82, 87, 65, 82, 68>>
    [] s = "EPOCH_WEBBING_BACKWARD" -> <<69, 80, 79, 67, 72, 95, 87, 69, 66, 66, 73, 78, 71, 95, 66, 65, 67, 75, 87, 65, 82, 68>>
    [] s = "CONTRIBUTION_RADIATION" -> <<67, 79, 78, 84, 82, 73, 66, 85, 84, 73, 79, 78, 95, 82, 65, 68, 73, 65, 84, 73, 79, 78>>
    [] s = "EPOCH_RADIATION" -> <<69, 80, 79, 67, 72, 95, 82, 65, 68, 73, 65, 84, 73, 79, 78>>
    [] s = "EPOCH_ACCUMULATOR_RADIATION" -> <<69, 80, 79, 67, 72, 95, 65, 67, 67, 85, 77, 85, 76, 65, 84, 79, 82, 95, 82, 65, 68, 73, 65, 84, 73, 79, 78>>
    [] s = "F" -> <<70>>
    [] s = "B" -> <<66>>
    [] OTHER -> Digits(Num(s))

\* s < t for two strings given by their code units
RECURSIVE CharsLess(_, _)
CharsLess(s, t) ==
  IF t = <<>> THEN FALSE
  ELSE IF s = <<>> THEN TRUE
  ELSE IF s[1] # t[1] THEN s[1] < t[1]
  ELSE CharsLess(Tail(s), Tail(t))

\* a < b for two addresses: an address is the string of its parts, each
\* followed by the separator NUL, which is below every other character
RECURSIVE AddressLess(_, _)
AddressLess(a, b) ==
  IF b = <<>> THEN FALSE
  ELSE IF a = <<>> THEN TRUE
  ELSE IF a[1] # b[1] THEN CharsLess(Chars(a[1]), Chars(b[1]))
  ELSE AddressLess(Tail(a), Tail(b))

\* NodeAddress.hasPrefix
hasPrefix(address, prefix) ==
  /\ Len(prefix) <= Len(address)
  /\ SubSeq(address, 1, Len(prefix)) = prefix

\* Array.prototype.sort and sortBy, on addresses
SortAddresses(s) == SortSeq(s, LAMBDA x, y : AddressLess(x, y))

\* the index of x in the sequence s, 0 if absent
IndexOf(s, x) ==
  IF \E i \in 1..Len(s) : s[i] = x
  THEN CHOOSE i \in 1..Len(s) : s[i] = x /\ \A j \in 1..(i - 1) : s[j] # x
  ELSE 0

SeqToSet(s) == {s[i] : i \in 1..Len(s)}

\* ------------------------------------------------------------------------
\* Node gadgets
\* ------------------------------------------------------------------------
CORE_NODE_PREFIX == <<"sourcecred", "core">>

seedPrefix == CORE_NODE_PREFIX \o <<"SEED">>
seedNode == [address |-> seedPrefix, description |-> <<"seed">>, mint |-> 0]

\* the seed gadget's fromRaw takes any address and returns undefined
seedFromRaw(addr) == [err |-> "none"]

accumulatorPrefix == CORE_NODE_PREFIX \o <<"EPOCH_ACCUMULATOR">>
accumulatorToRaw(addr) == accumulatorPrefix \o <<String(addr.epochStart)>>
accumulatorFromRaw(addr) ==
  IF ~hasPrefix(addr, accumulatorPrefix)
  THEN [err |-> "Not an epoch node address"]
  ELSE [err |-> "none",
        epochStart |-> IF Len(addr) > Len(accumulatorPrefix)
                       THEN Num(addr[Len(accumulatorPrefix) + 1])
                       ELSE NaN]
accumulatorNode(addr) ==
  [address |-> accumulatorToRaw(addr),
   description |-> <<"Epoch accumulator starting", String(addr.epochStart)>>,
   mint |-> 0]

epochPrefix == CORE_NODE_PREFIX \o <<"USER_EPOCH">>
epochToRaw(addr) == epochPrefix \o <<String(addr.epochStart), addr.owner>>
epochFromRaw(addr) ==
  IF ~hasPrefix(addr, epochPrefix)
  THEN [err |-> "Not an epoch node address"]
  ELSE IF Len(addr) < Len(epochPrefix) + 2
  THEN [err |-> "Not a valid uuid"]
  ELSE [err |-> "none",
        owner |-> addr[Len(epochPrefix) + 2],
        epochStart |-> Num(addr[Len(epochPrefix) + 1])]
epochNode(addr) ==
  [address |-> epochToRaw(addr),
   description |-> <<"Participant epoch for", addr.owner, String(addr.epochStart)>>,
   mint |-> 0]

\* ------------------------------------------------------------------------
\* Markov edges and edge gadgets
\* ------------------------------------------------------------------------
CORE_EDGE_PREFIX == <<"sourcecred", "core">>

\* the key of an edge in the edge map: its direction, then its address
markovEdgeAddressFromMarkovEdge(edge) ==
  <<IF edge.reversed THEN "B" ELSE "F">> \o edge.address

MarkovEdge(address, src, dst, pr) ==
  [address |-> address, reversed |-> FALSE, src |-> src, dst |-> dst,
   transitionProbability |-> pr]

payoutAddress(addr) ==
  CORE_EDGE_PREFIX \o <<"PAYOUT", String(addr.epochStart), addr.owner>>
\* the Markov edge address of the payout edge of a user-epoch
payoutToRaw(addr) == <<"F">> \o payoutAddress(addr)
payoutToFirstAccumulator(addr, pr) ==
  MarkovEdge(payoutAddress(addr),
             epochToRaw(addr),
             accumulatorToRaw([epochStart |-> NegInf]),
             pr)

payoutMarkovEdge(addr, pr) ==
  MarkovEdge(payoutAddress(addr),
             epochToRaw(addr),
             accumulatorToRaw([epochStart |-> addr.epochStart]),
             pr)

webbingParts(addr) == <<String(addr.lastStart), String(addr.thisStart), addr.owner>>
forwardWebbingMarkovEdge(addr, pr) ==
  MarkovEdge(CORE_EDGE_PREFIX \o <<"EPOCH_WEBBING_FORWARD">> \o webbingParts(addr),
             epochToRaw([owner |-> addr.owner, epochStart |-> addr.lastStart]),
             epochToRaw([owner |-> addr.owner, epochStart |-> addr.thisStart]),
             pr)
backwardWebbingMarkovEdge(addr, pr) ==
  MarkovEdge(CORE_EDGE_PREFIX \o <<"EPOCH_WEBBING_BACKWARD">> \o webbingParts(addr),
             epochToRaw([owner |-> addr.owner, epochStart |-> addr.thisStart]),
             epochToRaw([owner |-> addr.owner, epochStart |-> addr.lastStart]),
             pr)

seedMintToSeed(address, pr) ==
  MarkovEdge(CORE_EDGE_PREFIX \o <<"SEED_MINT">> \o address, address, seedPrefix, pr)

seedMintMarkovEdge(address, pr) ==
  MarkovEdge(CORE_EDGE_PREFIX \o <<"SEED_MINT">> \o address, seedPrefix, address, pr)

contributionRadiationMarkovEdge(address, pr) ==
  MarkovEdge(CORE_EDGE_PREFIX \o <<"CONTRIBUTION_RADIATION">> \o address,
             address, seedPrefix, pr)
epochRadiationMarkovEdge(addr, pr) ==
  MarkovEdge(CORE_EDGE_PREFIX \o <<"EPOCH_RADIATION", String(addr.epochStart), addr.owner>>,
             epochToRaw(addr), seedPrefix, pr)
accumulatorRadiationMarkovEdge(addr, pr) ==
  MarkovEdge(CORE_EDGE_PREFIX \o <<"EPOCH_ACCUMULATOR_RADIATION", String(addr.epochStart)>>,
             accumulatorToRaw(addr), seedPrefix, pr)

\* ------------------------------------------------------------------------
\* Virtualized nodes
\* ------------------------------------------------------------------------
virtualizedNodeAddresses(epochBoundaries) ==
  <<seedPrefix>> \o
  [i \in 1..Len(epochBoundaries) |-> accumulatorToRaw([epochStart |-> epochBoundaries[i]])]

\* null is the empty sequence
virtualizedNode(address) ==
  IF hasPrefix(address, seedPrefix) THEN <<seedNode>>
  ELSE IF hasPrefix(address, accumulatorPrefix)
  THEN <<accumulatorNode(accumulatorFromRaw(address))>>
  ELSE <<>>

\* ------------------------------------------------------------------------
\* MarkovProcessGraph.new
\* ------------------------------------------------------------------------
\* The builder's state: the maps _nodes and _edges in insertion order, the
\* map _nodeOutMasses, and the error thrown, "none" while none was.
NewBuilder == [nodes |-> <<>>, edges |-> <<>>, outMasses |-> <<>>, err |-> "none"]

Fail(st, e) == [st EXCEPT !.err = e]

\* _nodeOutMasses.get(a) || 0; the map is a sequence of <<address, mass>>
OutMass(outMasses, a) ==
  IF \E i \in 1..Len(outMasses) : outMasses[i][1] = a
  THEN (CHOOSE p \in SeqToSet(outMasses) : p[1] = a)[2]
  ELSE QZero

SetOutMass(outMasses, a, m) ==
  IF \E i \in 1..Len(outMasses) : outMasses[i][1] = a
  THEN [outMasses EXCEPT ![CHOOSE i \in 1..Len(outMasses) : outMasses[i][1] = a] = <<a, m>>]
  ELSE Append(outMasses, <<a, m>>)

HasNode(nodes, a) == \E i \in 1..Len(nodes) : nodes[i].address = a
HasEdge(edges, mae) ==
  \E i \in 1..Len(edges) : markovEdgeAddressFromMarkovEdge(edges[i]) = mae

addNodeOverwrite(st, node) ==
  IF st.err # "none" THEN st
  ELSE IF HasNode(st.nodes, node.address)
  THEN [st EXCEPT !.nodes = [i \in 1..Len(@) |->
                               IF @[i].address = node.address THEN node ELSE @[i]]]
  ELSE [st EXCEPT !.nodes = Append(@, node)]

addNode(st, node) ==
  IF st.err # "none" THEN st
  ELSE IF HasNode(st.nodes, node.address) THEN Fail(st, "Node conflict")
  ELSE [st EXCEPT !.nodes = Append(@, node)]

addEdgeUnchecked(st, edge) ==
  LET mae == markovEdgeAddressFromMarkovEdge(edge)
      pr == edge.transitionProbability
  IN  IF st.err # "none" THEN st
      ELSE IF HasEdge(st.edges, mae) THEN Fail(st, "Edge conflict")
      ELSE [st EXCEPT !.edges = Append(@, edge),
                      !.outMasses = SetOutMass(@, edge.src,
                                               QAdd(OutMass(@, edge.src), pr))]

addEdge(st, edge) ==
  LET mae == markovEdgeAddressFromMarkovEdge(edge)
      pr == edge.transitionProbability
  IN  IF st.err # "none" THEN st
      ELSE IF HasEdge(st.edges, mae) THEN Fail(st, "Edge conflict")
      ELSE IF QLt(pr, QZero) \/ QLt(QOne, pr)
      THEN Fail(st, "Invalid transition probability for edge")
      ELSE [st EXCEPT !.edges = Append(@, edge),
                      !.outMasses = SetOutMass(@, edge.src,
                                               QAdd(OutMass(@, edge.src), pr))]

validStrict(x) == QLt(QZero, x) /\ QLe(x, QOne)

\* Amount of mass allocated to contribution edges flowing from epoch nodes
valid(x) == QLe(QZero, x) /\ QLe(x, QOne)
epochTransitionRemainder(parameters) ==
  LET result == QSub(QOne, QAdd(QAdd(QAdd(parameters.alpha, parameters.beta),
                                     parameters.gammaForward),
                                parameters.gammaBackward))
  IN  IF \/ ~valid(parameters.beta)
         \/ ~valid(parameters.gammaForward)
         \/ ~valid(parameters.gammaBackward)
         \/ ~valid(parameters.alpha)
      THEN [err |-> "Invalid transition probability", result |-> QZero]
      ELSE IF QLt(result, QZero)
      THEN [err |-> "Overlarge transition probability", result |-> result]
      ELSE [err |-> "none", result |-> result]

timeBoundariesOfStarts(intervals) ==
  <<NegInf>> \o [i \in 1..Len(intervals) |-> intervals[i].startTimeMs]

timeBoundaries(intervals) ==
  <<NegInf>> \o [i \in 1..Len(intervals) |-> intervals[i].startTimeMs] \o <<PosInf>>

\* Add graph nodes: every node of the input graph that is not a scoring
\* node becomes a base node minting its weight
RECURSIVE addGraphNodes(_, _, _, _)
addGraphNodes(st, args, scoringAddresses, i) ==
  IF st.err # "none" \/ i > Len(args.nodes) THEN st
  ELSE LET node == args.nodes[i]
           weight == args.nodeWeights[node.address]
       IN  IF node.address \in scoringAddresses
           THEN addGraphNodes(st, args, scoringAddresses, i + 1)
           ELSE IF weight < 0 \/ weight = PosInf
           THEN Fail(st, "Bad node weight")
           ELSE IF hasPrefix(node.address, CORE_NODE_PREFIX)
           THEN Fail(st, "Unexpected core node in underlying graph")
           ELSE addGraphNodes(
                  addNode(st, [address |-> node.address,
                               description |-> node.description,
                               mint |-> weight]),
                  args, scoringAddresses, i + 1)

\* the value of lastBoundary after the body of the participant loop has
\* run for this boundary (null is the empty sequence)
nextLastBoundary(lastBoundary, boundary) == <<boundary>>

\* Add epoch nodes, payout edges and epoch webbing: step k of the loops
\* over the time boundaries (outer) and the participants (inner)
RECURSIVE addEpochs(_, _, _, _, _)
addEpochs(st, tb, args, k, lastBoundary) ==
  LET np == Len(args.participants)
      boundary == tb[((k - 1) \div np) + 1]
      participant == args.participants[((k - 1) % np) + 1]
      thisEpoch == [owner |-> participant.id, epochStart |-> boundary]
      st1 == addNode(st, epochNode(thisEpoch))
      st2 == addEdge(st1, payoutMarkovEdge(thisEpoch, args.parameters.beta))
      webbingAddress == [thisStart |-> boundary,
                         lastStart |-> lastBoundary[1],
                         owner |-> participant.id]
      st3 == IF lastBoundary # <<>>
             THEN addEdge(
                    addEdge(st2, forwardWebbingMarkovEdge(
                                   webbingAddress, args.parameters.gammaForward)),
                    backwardWebbingMarkovEdge(
                      webbingAddress, args.parameters.gammaBackward))
             ELSE st2
  IN  IF st.err # "none" \/ np = 0 \/ k > Len(tb) * np THEN st
      ELSE addEpochs(st3, tb, args, k + 1, nextLastBoundary(lastBoundary, boundary))

\* Add minting edges, from the seed to positive-weight graph nodes
RECURSIVE addMintEdges(_, _, _)
addMintEdges(st, positive, total) ==
  IF st.err # "none" \/ positive = <<>> THEN st
  ELSE addMintEdges(
         addEdge(st, seedMintMarkovEdge(positive[1].address,
                                        Q(positive[1].mint, total))),
         Tail(positive), total)

RECURSIVE SumMint(_)
SumMint(nodes) == IF nodes = <<>> THEN 0 ELSE nodes[1].mint + SumMint(Tail(nodes))

addMintingUnchecked(st) ==
  LET positiveNodeWeights == SelectSeq(st.nodes, LAMBDA n : n.mint > 0)
      totalNodeWeight == SumMint(positiveNodeWeights)
  IN  IF st.err # "none" THEN st
      ELSE addMintEdges(st, positiveNodeWeights, totalNodeWeight)

addMinting(st) ==
  LET positiveNodeWeights == SelectSeq(st.nodes, LAMBDA n : n.mint > 0)
      totalNodeWeight == SumMint(positiveNodeWeights)
  IN  IF st.err # "none" THEN st
      ELSE IF ~(totalNodeWeight > 0) THEN Fail(st, "No outflow from seed")
      ELSE addMintEdges(st, positiveNodeWeights, totalNodeWeight)

\* lodash sortedIndex on a sorted array: the lowest index (from 0) at which
\* the value can be inserted, the number of elements below it
sortedIndex(array, value) == Cardinality({i \in 1..Len(array) : array[i] < value})

scoringId(participants, address) ==
  IF \E i \in 1..Len(participants) : participants[i].address = address
  THEN <<participants[
         CHOOSE i \in 1..Len(participants) :
           /\ participants[i].address = address
           /\ \A j \in (i + 1)..Len(participants) : participants[j].address # address
       ].id>>
  ELSE <<>>

rewriteNoNode(participants, tb, address, edgeTimestampMs) == address

\* Find an epoch node, or just the original node if it's not a scoring address
rewriteEpochNode(participants, tb, address, edgeTimestampMs) ==
  LET owner == scoringId(participants, address)
      epochEndIndex == sortedIndex(tb, edgeTimestampMs)
      epochStartIndex == epochEndIndex - 1
      \* the array is indexed from 0 in the code, from 1 here
      epochTimestampMs == IF epochStartIndex + 1 \in 1..Len(tb)
                          THEN tb[epochStartIndex + 1]
                          ELSE NaN
  IN  IF owner = <<>> THEN address
      ELSE epochToRaw([owner |-> owner[1], epochStart |-> epochTimestampMs])

\* the two directions of one input edge
bothDirections(edge) ==
  << [address |-> edge.address, reversed |-> FALSE, src |-> edge.src,
      dst |-> edge.dst, timestamp |-> edge.timestampMs, weight |-> edge.forwards],
     [address |-> edge.address, reversed |-> TRUE, src |-> edge.dst,
      dst |-> edge.src, timestamp |-> edge.timestampMs, weight |-> edge.backwards] >>

RECURSIVE Flatten(_)
Flatten(ss) == IF ss = <<>> THEN <<>> ELSE ss[1] \o Flatten(Tail(ss))

\* graph.edges({showDangling: true})
graphEdgesShowDangling(args) == args.edges

\* graph.edges({showDangling: false}): the edges whose ends are both nodes
\* of the input graph
graphEdges(args) ==
  LET inputAddresses == {args.nodes[i].address : i \in 1..Len(args.nodes)}
  IN  SelectSeq(args.edges,
                LAMBDA e : e.src \in inputAddresses /\ e.dst \in inputAddresses)

\* the edges of the input graph without the dangling ones, split by
\* direction, those of positive weight only
unidirectionalGraphEdges(args) ==
  LET nonDangling == graphEdges(args)
      split == Flatten([i \in 1..Len(nonDangling) |-> bothDirections(nonDangling[i])])
  IN  SelectSeq(split, LAMBDA e : e.weight > 0)

RECURSIVE SumWeight(_)
SumWeight(es) == IF es = <<>> THEN 0 ELSE es[1].weight + SumWeight(Tail(es))

\* the keys of srcNodes in insertion order: the elements of s, each where it
\* first occurs
Distinct(s) ==
  LET first == SelectSeq([i \in 1..Len(s) |-> i],
                         LAMBDA i : \A j \in 1..(i - 1) : s[j] # s[i])
  IN  [k \in 1..Len(first) |-> s[first[k]]]

totalOutPrOfBase(src, parameters) == QSub(QOne, parameters.alpha)

\* the budget of the contribution edges leaving src
totalOutPr(src, parameters) ==
  IF hasPrefix(src, epochPrefix)
  THEN epochTransitionRemainder(parameters).result
  ELSE QSub(QOne, parameters.alpha)

RECURSIVE addOutEdges(_, _, _, _, _, _)
addOutEdges(st, args, tb, outEdges, totalOutWeight, budget) ==
  IF st.err # "none" \/ outEdges = <<>> THEN st
  ELSE LET outEdge == outEdges[1]
           pr == QMul(Q(outEdge.weight, totalOutWeight), budget)
       IN  addOutEdges(
             addEdge(st, [address |-> outEdge.address,
                          reversed |-> outEdge.reversed,
                          src |-> rewriteEpochNode(args.participants, tb,
                                                   outEdge.src, outEdge.timestamp),
                          dst |-> rewriteEpochNode(args.participants, tb,
                                                   outEdge.dst, outEdge.timestamp),
                          transitionProbability |-> pr]),
             args, tb, Tail(outEdges), totalOutWeight, budget)

RECURSIVE addSrcNodes(_, _, _, _, _)
addSrcNodes(st, args, tb, candidates, srcs) ==
  IF st.err # "none" \/ srcs = <<>> THEN st
  ELSE LET src == srcs[1]
           outEdges == SelectSeq(candidates,
                         LAMBDA e : rewriteEpochNode(args.participants, tb,
                                                     e.src, e.timestamp) = src)
       IN  addSrcNodes(
             addOutEdges(st, args, tb, outEdges, SumWeight(outEdges),
                         totalOutPr(src, args.parameters)),
             args, tb, candidates, Tail(srcs))

\* Add graph edges, normalised by the total weight leaving their source
addContributionEdges(st, args, tb) ==
  LET candidates == unidirectionalGraphEdges(args)
      srcs == Distinct([i \in 1..Len(candidates) |->
                          rewriteEpochNode(args.participants, tb,
                                           candidates[i].src, candidates[i].timestamp)])
  IN  IF st.err # "none" THEN st
      ELSE addSrcNodes(st, args, tb, candidates, srcs)

\* the probability of the radiation edge of a node: what its other
\* out-edges leave of 1
radiationProbabilityAll(outMasses, address) == QOne

radiationProbability(outMasses, address) ==
  QSub(QOne, OutMass(outMasses, address))

\* the radiation edge of one node
radiationEdge(st, node) ==
  LET transitionProbability == radiationProbability(st.outMasses, node.address)
  IN  IF node.address = seedPrefix THEN st
      ELSE IF hasPrefix(node.address, epochPrefix)
      THEN LET target == epochFromRaw(node.address)
           IN  IF target.err # "none" THEN Fail(st, target.err)
               ELSE addEdge(st, epochRadiationMarkovEdge(
                                  [owner |-> target.owner,
                                   epochStart |-> target.epochStart],
                                  transitionProbability))
      ELSE IF hasPrefix(node.address, accumulatorPrefix)
      THEN LET target == accumulatorFromRaw(node.address)
           IN  addEdge(st, accumulatorRadiationMarkovEdge(
                             [epochStart |-> target.epochStart],
                             transitionProbability))
      ELSE IF hasPrefix(node.address, CORE_NODE_PREFIX)
      THEN Fail(st, "invariant violation: unknown core node")
      ELSE addEdge(st, contributionRadiationMarkovEdge(node.address,
                                                       transitionProbability))

RECURSIVE addRadiation(_, _)
addRadiation(st, nodes) ==
  IF st.err # "none" \/ nodes = <<>> THEN st
  ELSE addRadiation(radiationEdge(st, nodes[1]), Tail(nodes))

realNodesOnly(nodes, tb) == nodes

realAndVirtualNodes(nodes, tb) ==
  LET virtual == virtualizedNodeAddresses(tb)
  IN  nodes \o [i \in 1..Len(virtual) |-> virtualizedNode(virtual[i])[1]]

\* MarkovProcessGraph.new: the graph built, or the error thrown
New(args) ==
  LET remainder == epochTransitionRemainder(args.parameters)
      tb == timeBoundaries(args.intervals)
      scoringAddresses == {args.participants[i].address :
                             i \in 1..Len(args.participants)}
      st0 == Fail(NewBuilder, remainder.err)
      st1 == addGraphNodes(st0, args, scoringAddresses, 1)
      st2 == addEpochs(st1, tb, args, 1, <<>>)
      st3 == addMinting(st2)
      st4 == addContributionEdges(st3, args, tb)
      st5 == addRadiation(st4, realAndVirtualNodes(st4.nodes, tb))
      thrown(e) == [err |-> e, nodes |-> <<>>, edges |-> <<>>,
                    participants |-> <<>>, epochBoundaries |-> <<>>]
  IN  IF st0.err # "none" THEN thrown(st0.err)
      ELSE IF st1.err # "none" THEN thrown(st1.err)
      ELSE IF st2.err # "none" THEN thrown(st2.err)
      ELSE IF st3.err # "none" THEN thrown(st3.err)
      ELSE IF st4.err # "none" THEN thrown(st4.err)
      ELSE IF st5.err # "none" THEN thrown(st5.err)
      ELSE [err |-> "none", nodes |-> st5.nodes, edges |-> st5.edges,
            participants |-> args.participants, epochBoundaries |-> tb]

\* ------------------------------------------------------------------------
\* The chain view
\* ------------------------------------------------------------------------
nodeAddresses(g) == [i \in 1..Len(g.nodes) |-> g.nodes[i].address]
edgeAddresses(g) ==
  [i \in 1..Len(g.edges) |-> markovEdgeAddressFromMarkovEdge(g.edges[i])]

nodeOrderUnsorted(g) ==
  nodeAddresses(g) \o virtualizedNodeAddresses(g.epochBoundaries)

nodeOrder(g) ==
  LET real == SortAddresses(nodeAddresses(g))
      virtual == virtualizedNodeAddresses(g.epochBoundaries)
  IN  real \o virtual

\* this._nodes.get(address) || virtualizedNode(address); null is <<>>
node(g, address) ==
  IF HasNode(g.nodes, address)
  THEN <<g.nodes[CHOOSE i \in 1..Len(g.nodes) : g.nodes[i].address = address]>>
  ELSE virtualizedNode(address)

edgeOrder(g) == SortAddresses(edgeAddresses(g))

edge(g, address) ==
  IF HasEdge(g.edges, address)
  THEN <<g.edges[CHOOSE i \in 1..Len(g.edges) :
                   markovEdgeAddressFromMarkovEdge(g.edges[i]) = address]>>
  ELSE <<>>

\* the edges in edge order
edges(g) ==
  LET order == edgeOrder(g)
  IN  [i \in 1..Len(order) |-> edge(g, order[i])[1]]

\* ------------------------------------------------------------------------
\* toMarkovChain
\* ------------------------------------------------------------------------
\* nodeOutMasses after the loop over the edges lo..hi: the loop over the
\* first half of them, then the loop over the rest; NullUtil.get throws on
\* an edge whose src has no entry
RECURSIVE chainOutMasses(_, _, _, _)
chainOutMasses(masses, es, lo, hi) ==
  IF lo > hi THEN [err |-> "none", masses |-> masses]
  ELSE IF lo = hi
  THEN IF ~\E k \in 1..Len(masses) : masses[k][1] = es[lo].src
       THEN [err |-> "null or undefined", masses |-> masses]
       ELSE [err |-> "none",
             masses |-> SetOutMass(masses, es[lo].src,
                                   QAdd(OutMass(masses, es[lo].src),
                                        es[lo].transitionProbability))]
  ELSE LET mid == (lo + hi) \div 2
           first == chainOutMasses(masses, es, lo, mid)
       IN  IF first.err # "none" THEN first
           ELSE chainOutMasses(first.masses, es, mid + 1, hi)

sumCheckFailsAbove(outMass) == QLt(Q(1, 1000), QSub(outMass, QOne))

\* Math.abs(discrepancy) > 1e-3
sumCheckFails(outMass) == QLt(Q(1, 1000), QAbs(QSub(outMass, QOne)))

\* the first node of nodeOutMasses that fails the check, <<>> if none does
sumCheckOffender(masses) ==
  LET bad == {i \in 1..Len(masses) : sumCheckFails(masses[i][2])}
  IN  IF bad = {} THEN <<>>
      ELSE <<masses[CHOOSE i \in bad : \A j \in bad : i <= j][1]>>

\* MapUtil.pushValue(map, key, value) on a map kept as <<key, values>> pairs
pushValue(map, key, value) ==
  IF \E i \in 1..Len(map) : map[i][1] = key
  THEN [map EXCEPT ![CHOOSE i \in 1..Len(map) : map[i][1] = key][2] = Append(@, value)]
  ELSE Append(map, <<key, <<value>>>>)

pushBySrc(map, e) == pushValue(map, e.src, e)

\* one step of the loop that files every edge under its dst
pushByDst(map, e) == pushValue(map, e.dst, e)

\* inNeighbors after the loop over the edges lo..hi: the loop over the
\* first half of them, then the loop over the rest. The map the loop starts
\* from holds keys of the edges before lo only, so fewer than lo.
RECURSIVE inNeighborsFrom(_, _, _, _)
inNeighborsFrom(map, es, lo, hi) ==
  IF lo > hi \/ Len(map) >= lo THEN map
  ELSE IF lo = hi THEN pushByDst(map, es[lo])
  ELSE LET mid == (lo + hi) \div 2
       IN  inNeighborsFrom(inNeighborsFrom(map, es, lo, mid), es, mid + 1, hi)

\* NullUtil.orElse(inNeighbors.get(address), [])
inEdgesOf(map, address) ==
  IF \E i \in 1..Len(map) : map[i][1] = address
  THEN (CHOOSE p \in SeqToSet(map) : p[1] = address)[2]
  ELSE <<>>

\* nodeIndex.get(address): the index (from 0) into the node order, <<>> if
\* the address is not in it
nodeIndex(order, address) ==
  LET at == {i \in 1..Len(order) : order[i] = address}
  IN  IF at = {} THEN <<>>
      ELSE <<(CHOOSE i \in at : \A j \in at : j <= i) - 1>>

\* the result of toMarkovChain, or the error thrown; offender is the node
\* the error names
toMarkovChain(g) ==
  LET order == nodeOrder(g)
      es == edges(g)
      masses == chainOutMasses([i \in 1..Len(order) |-> <<order[i], QZero>>],
                               es, 1, Len(es))
      offender == sumCheckOffender(masses.masses)
      inNeighbors == inNeighborsFrom(<<>>, es, 1, Len(es))
      unknownSrc == {i \in 1..Len(es) : nodeIndex(order, es[i].src) = <<>>}
      chain == [n \in 1..Len(order) |->
                  LET inEdges == inEdgesOf(inNeighbors, order[n])
                  IN  [neighbor |-> [j \in 1..Len(inEdges) |->
                                       nodeIndex(order, inEdges[j].src)[1]],
                       weight |-> [j \in 1..Len(inEdges) |->
                                     inEdges[j].transitionProbability]]]
      failed(e, a) == [err |-> e, offender |-> a, nodeOrder |-> <<>>, chain |-> <<>>]
  IN  IF masses.err # "none" THEN failed(masses.err, <<>>)
      ELSE IF offender # <<>>
      THEN failed("Transition weights do not sum to 1.0", offender)
      ELSE IF unknownSrc # {} THEN failed("unknown src", <<>>)
      ELSE [err |-> "none", offender |-> <<>>, nodeOrder |-> order, chain |-> chain]

\* ------------------------------------------------------------------------
\* The JSON codec of the Markov process graph
\* ------------------------------------------------------------------------
COMPAT_INFO == [type |-> "sourcecred/markovProcessGraph", version |-> "0.1.0"]

\* a Map built by set() over a sequence of keys: the index (from 0) that
\* the last occurrence of the key was given, <<>> if the key is absent
MapIndex(order, address) ==
  LET at == {i \in 1..Len(order) : order[i] = address}
  IN  IF at = {} THEN <<>>
      ELSE <<(CHOOSE i \in at : \A j \in at : j <= i) - 1>>

toCompat(info, payload) ==
  [type |-> info.type, version |-> info.version, payload |-> payload]

\* the payload of a document, <<>> when the document is undefined or its
\* type or version is not the expected one
fromCompat(info, j) ==
  IF j = <<>> THEN <<>>
  ELSE IF j[1].type # info.type \/ j[1].version # info.version THEN <<>>
  ELSE <<j[1].payload>>

toJSON(g) ==
  LET sortedNodes == SortSeq(g.nodes, LAMBDA x, y : AddressLess(x.address, y.address))
      sortedEdges == SortSeq(g.edges,
                       LAMBDA x, y : AddressLess(markovEdgeAddressFromMarkovEdge(x),
                                                 markovEdgeAddressFromMarkovEdge(y)))
      order == nodeOrder(g)
      missing == \E i \in 1..Len(sortedEdges) :
                   \/ MapIndex(order, sortedEdges[i].src) = <<>>
                   \/ MapIndex(order, sortedEdges[i].dst) = <<>>
      indexedEdges ==
        [i \in 1..Len(sortedEdges) |->
           [address |-> sortedEdges[i].address,
            reversed |-> sortedEdges[i].reversed,
            src |-> MapIndex(order, sortedEdges[i].src)[1],
            dst |-> MapIndex(order, sortedEdges[i].dst)[1],
            transitionProbability |-> sortedEdges[i].transitionProbability]]
  IN  IF missing THEN [err |-> "null or undefined"]
      ELSE [err |-> "none",
            json |-> toCompat(COMPAT_INFO,
                       [sortedNodes |-> sortedNodes,
                        indexedEdges |-> indexedEdges,
                        participants |-> g.participants,
                        finiteEpochBoundaries |->
                          SubSeq(g.epochBoundaries, 2, Len(g.epochBoundaries) - 1)])]

\* the Map built from a sequence of <<key, value>> entries: its keys in the
\* order in which they first occur, each with the value of its last entry
MapFrom(entries) ==
  LET n == Len(entries)
      first == SelectSeq([i \in 1..n |-> i],
                         LAMBDA i : \A j \in 1..(i - 1) : entries[j][1] # entries[i][1])
      last(key) == CHOOSE i \in 1..n : /\ entries[i][1] = key
                                       /\ \A j \in (i + 1)..n : entries[j][1] # key
  IN  [m \in 1..Len(first) |->
         <<entries[first[m]][1], entries[last(entries[first[m]][1])][2]>>]

\* the values of a Map in insertion order
MapValues(m) == [i \in 1..Len(m) |-> m[i][2]]

withSentinelsNoStart(finiteEpochBoundaries) == finiteEpochBoundaries \o <<PosInf>>

\* the epoch boundaries of a document: its finite ones between the sentinels
withSentinels(finiteEpochBoundaries) ==
  <<NegInf>> \o finiteEpochBoundaries \o <<PosInf>>

\* array[index] with a zero-based index: undefined (<<>>) out of range
elementAt(array, index) ==
  IF index + 1 \in 1..Len(array) THEN array[index + 1] ELSE <<>>

\* j is <<document>>, or <<>> for undefined
fromJSON(j) ==
  LET payload == fromCompat(COMPAT_INFO, j)
      p == payload[1]
      epochBoundaries == withSentinels(p.finiteEpochBoundaries)
      sortedNodeAddresses ==
        [i \in 1..Len(p.sortedNodes) |-> p.sortedNodes[i].address]
        \o virtualizedNodeAddresses(epochBoundaries)
      decoded ==
        [i \in 1..Len(p.indexedEdges) |->
           [address |-> p.indexedEdges[i].address,
            reversed |-> p.indexedEdges[i].reversed,
            src |-> elementAt(sortedNodeAddresses, p.indexedEdges[i].src),
            dst |-> elementAt(sortedNodeAddresses, p.indexedEdges[i].dst),
            transitionProbability |-> p.indexedEdges[i].transitionProbability]]
  IN  IF payload = <<>>
      THEN [err |-> "compat", nodes |-> <<>>, edges |-> <<>>,
            participants |-> <<>>, epochBoundaries |-> <<>>]
      ELSE [err |-> "none",
            nodes |-> MapValues(MapFrom(
                        [i \in 1..Len(p.sortedNodes) |->
                           <<p.sortedNodes[i].address, p.sortedNodes[i]>>])),
            edges |-> MapValues(MapFrom(
                        [i \in 1..Len(decoded) |->
                           <<markovEdgeAddressFromMarkovEdge(decoded[i]), decoded[i]>>])),
            participants |-> p.participants,
            epochBoundaries |-> epochBoundaries]

\* ------------------------------------------------------------------------
\* The cred graph
\* ------------------------------------------------------------------------
CRED_COMPAT_INFO == [type |-> "sourcecred/credGraph", version |-> "0.1.0"]

\* the value of a field of an object, <<>> when the object has no such field
Field(obj, name) == IF name \in DOMAIN obj THEN <<obj[name]>> ELSE <<>>

\* NullUtil.get(this._scores.get(addr)); the score map is a function
HasScore(cg, addr) == addr \in DOMAIN cg.scores
cred(cg, addr) == cg.scores[addr]

credFlowOfDst(cg, e) == QMul(QInt(cred(cg, e.dst)), e.transitionProbability)

credFlow(cg, e) == QMul(QInt(cred(cg, e.src)), e.transitionProbability)

\* MarkovProcessGraph.nodes(): the nodes in the node order, virtual ones
\* included
mpgNodes(g) ==
  LET order == nodeOrder(g)
  IN  [i \in 1..Len(order) |-> node(g, order[i])[1]]

\* {...node, cred}
withCred(cg, n) ==
  [address |-> n.address, description |-> n.description, mint |-> n.mint,
   cred |-> cred(cg, n.address)]

\* CredGraph.node(addr): only the map _nodes of the graph is read;
\* undefined is the empty sequence
credNode(cg, addr) ==
  IF HasNode(cg.mpg.nodes, addr)
  THEN <<withCred(cg, cg.mpg.nodes[CHOOSE i \in 1..Len(cg.mpg.nodes) :
                                      cg.mpg.nodes[i].address = addr])>>
  ELSE <<>>

\* CredGraph.nodes()
credNodes(cg) ==
  LET ns == mpgNodes(cg.mpg)
  IN  [i \in 1..Len(ns) |-> withCred(cg, ns[i])]

withCredOfSrc(cg, e) ==
  [address |-> e.address, reversed |-> e.reversed, src |-> e.src, dst |-> e.dst,
   transitionProbability |-> e.transitionProbability,
   credFlow |-> QInt(cred(cg, e.src))]

\* CredGraph.edges(): every edge of the graph is yielded as {...edge,
\* credFlow}
withCredFlow(cg, e) ==
  [address |-> e.address, reversed |-> e.reversed, src |-> e.src, dst |-> e.dst,
   transitionProbability |-> e.transitionProbability,
   credFlow |-> credFlow(cg, e)]

RECURSIVE participantRecords(_, _)
participantRecords(cg, ps) ==
  IF ps = <<>> THEN [err |-> "none", out |-> <<>>]
  ELSE LET p == ps[1]
           bs == cg.mpg.epochBoundaries
           epochs == [i \in 1..Len(bs) |-> [owner |-> p.id, epochStart |-> bs[i]]]
           payoutEdges == [i \in 1..Len(bs) |-> edge(cg.mpg, payoutToRaw(epochs[i]))]
           bad == \E i \in 1..Len(bs) :
                    \/ payoutEdges[i] = <<>>
                    \/ ~HasScore(cg, payoutEdges[i][1].src)
           credPerEpoch == [i \in 1..Len(bs) |-> credFlow(cg, payoutEdges[i][1])]
           rest == participantRecords(cg, Tail(ps))
       IN  IF bad THEN [err |-> "null or undefined", out |-> <<>>]
           ELSE IF rest.err # "none" THEN rest
           ELSE [err |-> "none",
                 out |-> <<[address |-> p.address,
                            description |-> p.description,
                            credPerEpoch |-> credPerEpoch,
                            cred |-> QSum(credPerEpoch),
                            id |-> p.id]>> \o rest.out]

\* CredGraph.participants
participants(cg) == participantRecords(cg, cg.mpg.participants)

credToJSON(cg) ==
  LET mpgJson == toJSON(cg.mpg)
      order == nodeOrder(cg.mpg)
  IN  IF mpgJson.err # "none" THEN [err |-> mpgJson.err]
      ELSE IF \E i \in 1..Len(order) : ~HasScore(cg, order[i])
      THEN [err |-> "null or undefined"]
      ELSE [err |-> "none",
            json |-> toCompat(CRED_COMPAT_INFO,
                       [mpg |-> mpgJson.json,
                        scores |-> [i \in 1..Len(order) |-> cg.scores[order[i]]]])]

\* the name under which the decoder reads the chain from the payload
decodedChainField == "mpgJson"

credFromJSON(j) ==
  LET payload == fromCompat(CRED_COMPAT_INFO, j)
      mpgJson == Field(payload[1], decodedChainField)
      scores == Field(payload[1], "scores")
      mpg == fromJSON(mpgJson)
      order == nodeOrder(mpg)
  IN  IF payload = <<>> THEN [err |-> "compat"]
      ELSE IF mpg.err # "none" THEN [err |-> mpg.err]
      ELSE [err |-> "none",
            mpg |-> mpg,
            scores |-> [a \in SeqToSet(order) |->
                          scores[1][MapIndex(order, a)[1] + 1]]]

\* ------------------------------------------------------------------------
\* The configuration parser of the Discord plugin
\* ------------------------------------------------------------------------
\* JSON values: a string, a number, or an object whose entries are
\* <<key, type of the value, text of the value>>
StringValue(text) == [type |-> "string", text |-> text, entries |-> {}]
NumberValue(text) == [type |-> "number", text |-> text, entries |-> {}]
ObjectValue(entries) == [type |-> "object", text |-> "", entries |-> entries]

\* Combo.string
stringParser(v) ==
  IF v.type = "string" THEN [err |-> "none", value |-> v]
  ELSE [err |-> "expected string", value |-> v]

\* Combo.dict(Combo.number)
numberDictParser(v) ==
  IF v.type # "object" THEN [err |-> "expected object", value |-> v]
  ELSE IF \E e \in v.entries : e[2] # "number"
  THEN [err |-> "expected number", value |-> v]
  ELSE [err |-> "none", value |-> v]

\* Combo.object(fields): every field named is required; the value parsed
\* has the fields named and no other. results gives, for every field
\* named that raw has, what the parser of the field makes of its value
objectParser(order, raw, results) ==
  LET missing == {i \in 1..Len(order) : order[i] \notin DOMAIN raw}
      bad == {i \in 1..Len(order) :
                order[i] \in DOMAIN raw /\ results[order[i]].err # "none"}
  IN  IF missing # {} THEN [err |-> "missing key", value |-> <<>>]
      ELSE IF bad # {} THEN [err |-> "bad field", value |-> <<>>]
      ELSE [err |-> "none",
            value |-> [f \in SeqToSet(order) |-> results[f].value]]

\* the fields the parser names, in the order it names them
configFields == <<"guildId", "reactionWeights", "roleWeights", "channelWeights">>

\* the parser of each field
configFieldParser(f, v) ==
  IF f = "guildId" THEN stringParser(v) ELSE numberDictParser(v)

\* parser.parseOrThrow(raw)
parser(raw) ==
  objectParser(configFields, raw,
               [f \in DOMAIN raw \cap SeqToSet(configFields) |->
                  configFieldParser(f, raw[f])])

\* ------------------------------------------------------------------------
\* Inputs
\* ------------------------------------------------------------------------
A == <<"a">>
B == <<"b">>
C == <<"c">>
P1 == <<"p1">>
P2 == <<"p2">>
CoreFoo == <<"sourcecred", "core", "FOO">>

GraphNode(address) == [address |-> address, description |-> <<"node">> \o address]

U1 == [address |-> P1, description |-> <<"participant", "p1">>, id |-> "u1"]
U2 == [address |-> P2, description |-> <<"participant", "p2">>, id |-> "u2"]
\* a second participant under the id of the first
U1Again == [address |-> P2, description |-> <<"participant", "p2">>, id |-> "u1"]

ParticipantLists == {<<>>, <<U1>>, <<U1, U2>>, <<U2, U1>>, <<U1, U1Again>>}

Interval(start) == [startTimeMs |-> start]

\* interval sequences: strictly increasing start times
IntervalSequences ==
  {[i \in 1..Len(s) |-> Interval(s[i])] :
     s \in {t \in UNION {[1..n -> StartTimes] : n \in 0..MaxIntervals} :
              \A i \in 1..(Len(t) - 1) : t[i] < t[i + 1]}}

EdgeTemplate(src, dst, t, forwards, backwards) ==
  [src |-> src, dst |-> dst, timestampMs |-> t,
   forwards |-> forwards, backwards |-> backwards]

\* the edges an input graph is made of; the edge to C is dangling
EdgePool ==
  << EdgeTemplate(P1, A, 5, 1, 2),  EdgeTemplate(P1, A, 7, 1, 2),
     EdgeTemplate(P1, A, 10, 2, 0), EdgeTemplate(P1, P2, 5, 1, 1),
     EdgeTemplate(A, B, 7, 1, 2),   EdgeTemplate(A, B, 7, 0, 0),
     EdgeTemplate(A, C, 7, 1, 1) >>

\* edge lists: up to MaxEdges edges of the pool, each under its own address
EdgeLists ==
  {[i \in 1..Len(s) |->
      [address |-> <<"e", ToString(i)>>,
       src |-> EdgePool[s[i]].src, dst |-> EdgePool[s[i]].dst,
       timestampMs |-> EdgePool[s[i]].timestampMs,
       forwards |-> EdgePool[s[i]].forwards,
       backwards |-> EdgePool[s[i]].backwards]] :
     s \in {t \in UNION {[1..n -> 1..Len(EdgePool)] : n \in 0..MaxEdges} :
              \A i \in 1..(Len(t) - 1) : t[i] <= t[i + 1]}}

Tenths(k) == Q(k, 10)

Parameters(a, b, gf, gb) ==
  [alpha |-> Tenths(a), beta |-> Tenths(b),
   gammaForward |-> Tenths(gf), gammaBackward |-> Tenths(gb)]

ParamTenths == {-1, 0, 1, 5, 11}

AllNodes == <<GraphNode(A), GraphNode(B), GraphNode(P1), GraphNode(P2)>>

Weights(a, b, p1, p2) ==
  (A :> a) @@ (B :> b) @@ (P1 :> p1) @@ (P2 :> p2) @@ (CoreFoo :> 1)

\* graphs of every shape, under one parameter setting
StructureInputs ==
  [nodes : {AllNodes},
   nodeWeights : {Weights(1, 2, 3, 0)},
   edges : EdgeLists,
   participants : ParticipantLists,
   intervals : IntervalSequences,
   parameters : {Parameters(2, 3, 1, 1)}]

\* every parameter setting, on one graph
ParameterInputs ==
  [nodes : {AllNodes},
   nodeWeights : {Weights(1, 2, 3, 0)},
   edges : {e \in EdgeLists : Len(e) = 1 /\ e[1].src = P1 /\ e[1].dst = A
                              /\ e[1].timestampMs = 7 /\ e[1].backwards = 2},
   participants : {<<U1, U2>>},
   intervals : {<<Interval(5)>>},
   parameters : {Parameters(a, b, gf, gb) : a, b, gf, gb \in ParamTenths}]

\* every node weight, on graphs with and without participants
WeightInputs ==
  [nodes : {AllNodes, <<GraphNode(A), GraphNode(P1)>>,
            <<GraphNode(A), GraphNode(CoreFoo), GraphNode(P1)>>},
   nodeWeights : {Weights(a, b, p1, 0) : a \in {-1, 0, 1, PosInf},
                                         b \in {0, 2}, p1 \in {0, 3}},
   edges : {<<>>},
   participants : {<<>>, <<U1>>},
   intervals : {<<Interval(5)>>},
   parameters : {Parameters(2, 3, 1, 1)}]

\* the minimal scenario: one base node of weight 1, one participant, one
\* interval starting at 0, no edges
MinimalInputs ==
  [nodes : {<<GraphNode(A), GraphNode(P1)>>},
   nodeWeights : {Weights(1, 2, 3, 0)},
   edges : {<<>>},
   participants : {<<U1>>},
   intervals : {<<Interval(0)>>},
   parameters : {Parameters(2, 3, 1, 1)}]

Inputs == StructureInputs \cup ParameterInputs \cup WeightInputs \cup MinimalInputs

\* a document with the transition probability of its first edge raised
raisedDocument(j, delta) ==
  [j EXCEPT !.payload.indexedEdges[1].transitionProbability = QAdd(@, delta)]

\* documents that toJSON did not write: the first edge of a written one
\* raised within and beyond the tolerance of the sum check, or its last
\* edge left out
ForeignDocuments(j) ==
  IF j.payload.indexedEdges = <<>> THEN {}
  ELSE {raisedDocument(j, Q(1, 2000)), raisedDocument(j, Q(1, 500)),
        [j EXCEPT !.payload.indexedEdges = SubSeq(@, 1, Len(@) - 1)]}

\* the time boundaries a gadget address can carry
Boundaries == {NegInf, PosInf} \cup StartTimes

\* the addresses handed to the node gadgets: those the gadgets make, and
\* addresses of other nodes
GadgetAddresses ==
  {seedPrefix, A, P1, CoreFoo, CORE_NODE_PREFIX}
  \cup {accumulatorToRaw([epochStart |-> b]) : b \in Boundaries}
  \cup {epochToRaw([owner |-> o, epochStart |-> b]) : o \in {"u1", "u2"}, b \in Boundaries}

\* the edges handed to addEdge: every probability around the unit interval
EdgeCalls ==
  [fn : {"addEdge"},
   arg : {[reversed |-> r, address |-> <<"e", "1">>, src |-> A, dst |-> B,
           transitionProbability |-> pr] :
            r \in BOOLEAN,
            pr \in {Tenths(-1), QZero, Tenths(5), QOne, Tenths(11)}}]

\* the values a field of a configuration can have: for each field one of
\* its type and one of another type
ConfigValues(f) ==
  IF f = "guildId" THEN {StringValue("453243919774253079"), NumberValue("4")}
  ELSE {ObjectValue({<<"default", "number", "0">>, <<"core:626763367893303303", "number", "2">>}),
        ObjectValue({<<"default", "string", "high">>})}

\* the configurations: any of the four fields present or absent
Configs ==
  UNION {{c \in [D -> UNION {ConfigValues(f) : f \in D}] :
            \A f \in D : c[f] \in ConfigValues(f)} :
         D \in SUBSET SeqToSet(configFields)}

ConfigCalls == [fn : {"parser.parseOrThrow"}, arg : Configs]

\* inputs whose graph yields a node twice, or once, in an otherwise valid
\* input: a base node or a participant's node
YieldingInputs ==
  [nodes : {<<GraphNode(A), GraphNode(B), GraphNode(P1)>>,
            <<GraphNode(A), GraphNode(A), GraphNode(P1)>>,
            <<GraphNode(A), GraphNode(B), GraphNode(A)>>,
            <<GraphNode(B), GraphNode(P1), GraphNode(B)>>,
            <<GraphNode(A), GraphNode(P1), GraphNode(P1)>>},
   nodeWeights : {Weights(1, 2, 3, 0), Weights(1, 0, 0, 0)},
   edges : {<<>>},
   participants : {<<>>, <<U1>>},
   intervals : {<<>>, <<Interval(5)>>},
   parameters : {Parameters(2, 3, 1, 1)}]

NewCalls == [fn : {"MarkovProcessGraph.new"}, arg : YieldingInputs]

GadgetCalls ==
  [fn : {"seedGadget.fromRaw", "accumulatorGadget.fromRaw", "epochGadget.fromRaw"},
   arg : GadgetAddresses]

\* the score vectors bound to a graph: one score per node of the node order
ScoreVectors(order) ==
  {[a \in SeqToSet(order) |-> (IndexOf(order, a) * m + o) % 4] :
     m \in {1, 3}, o \in {1}}

\* ------------------------------------------------------------------------
\* The state machine: a graph is built from the arguments, encoded and
\* decoded, bound to scores, reported on, and encoded and decoded again
\* ------------------------------------------------------------------------
VARIABLES args, pc, graph, chain, doc, graph2, foreign, foreignChain,
          credGraph, records, credDoc, credGraph2, call, ret

vars == <<args, pc, graph, chain, doc, graph2, foreign, foreignChain,
          credGraph, records, credDoc, credGraph2, call, ret>>

\* the value of a variable that was not computed yet
None == <<>>

\* either a graph is to be built from arguments, or one function is to be
\* called on an argument
Init ==
  /\ \/ args \in Inputs /\ call = None /\ pc = "start"
     \/ args = None /\ call \in GadgetCalls /\ pc = "call"
     \/ args = None /\ call \in EdgeCalls /\ pc = "call"
     \/ args = None /\ call \in ConfigCalls /\ pc = "call"
     \/ args = None /\ call \in NewCalls /\ pc = "call"
  /\ graph = None
  /\ chain = None
  /\ doc = None
  /\ graph2 = None
  /\ foreign = None
  /\ foreignChain = None
  /\ credGraph = None
  /\ records = None
  /\ credDoc = None
  /\ credGraph2 = None
  /\ ret = None

\* MarkovProcessGraph.new(args)
Build ==
  /\ pc = "start"
  /\ graph' = New(args)
  /\ pc' = IF graph'.err = "none" THEN "built" ELSE "failed"
  /\ UNCHANGED <<args, chain, doc, graph2, foreign, foreignChain,
                 credGraph, records, credDoc, credGraph2, call, ret>>

\* graph.toMarkovChain()
Export ==
  /\ pc = "built"
  /\ chain' = toMarkovChain(graph)
  /\ pc' = IF chain'.err = "none" THEN "exported" ELSE "failed"
  /\ UNCHANGED <<args, graph, doc, graph2, foreign, foreignChain,
                 credGraph, records, credDoc, credGraph2, call, ret>>

\* graph.toJSON()
Encode ==
  /\ pc = "exported"
  /\ doc' = toJSON(graph)
  /\ pc' = IF doc'.err = "none" THEN "encoded" ELSE "failed"
  /\ UNCHANGED <<args, graph, chain, graph2, foreign, foreignChain,
                 credGraph, records, credDoc, credGraph2, call, ret>>

\* MarkovProcessGraph.fromJSON(doc)
Decode ==
  /\ pc = "encoded"
  /\ graph2' = fromJSON(<<doc.json>>)
  /\ pc' = IF graph2'.err = "none" THEN "decoded" ELSE "failed"
  /\ UNCHANGED <<args, graph, chain, doc, foreign, foreignChain,
                 credGraph, records, credDoc, credGraph2, call, ret>>

\* MarkovProcessGraph.fromJSON(j) for a document j that toJSON did not write
DecodeForeign ==
  /\ pc = "encoded"
  /\ Len(args.edges) <= MaxForeignEdges
  /\ \E j \in ForeignDocuments(doc.json) : foreign' = fromJSON(<<j>>)
  /\ pc' = IF foreign'.err = "none" THEN "foreign" ELSE "failed"
  /\ UNCHANGED <<args, graph, chain, doc, graph2, foreignChain,
                 credGraph, records, credDoc, credGraph2, call, ret>>

\* foreign.toMarkovChain()
ExportForeign ==
  /\ pc = "foreign"
  /\ foreignChain' = toMarkovChain(foreign)
  /\ pc' = IF foreignChain'.err = "none" THEN "foreignExported" ELSE "foreignFailed"
  /\ UNCHANGED <<args, graph, chain, doc, graph2, foreign,
                 credGraph, records, credDoc, credGraph2, call, ret>>

\* new CredGraph(graph, scores)
BindScores ==
  /\ pc = "decoded"
  /\ \E scores \in ScoreVectors(nodeOrder(graph)) :
       credGraph' = [mpg |-> graph, scores |-> scores]
  /\ pc' = "scored"
  /\ UNCHANGED <<args, graph, chain, doc, graph2, foreign, foreignChain,
                 records, credDoc, credGraph2, call, ret>>

\* Array.from(credGraph.participants())
Report ==
  /\ pc = "scored"
  /\ records' = participants(credGraph)
  /\ pc' = IF records'.err = "none" THEN "reported" ELSE "failed"
  /\ UNCHANGED <<args, graph, chain, doc, graph2, foreign, foreignChain,
                 credGraph, credDoc, credGraph2, call, ret>>

\* credGraph.toJSON()
CredEncode ==
  /\ pc = "reported"
  /\ credDoc' = credToJSON(credGraph)
  /\ pc' = IF credDoc'.err = "none" THEN "credEncoded" ELSE "failed"
  /\ UNCHANGED <<args, graph, chain, doc, graph2, foreign, foreignChain,
                 credGraph, records, credGraph2, call, ret>>

\* CredGraph.fromJSON(credDoc)
CredDecode ==
  /\ pc = "credEncoded"
  /\ credGraph2' = credFromJSON(<<credDoc.json>>)
  /\ pc' = IF credGraph2'.err = "none" THEN "done" ELSE "failed"
  /\ UNCHANGED <<args, graph, chain, doc, graph2, foreign, foreignChain,
                 credGraph, records, credDoc, call, ret>>

\* the variables of the pipeline, which a function call leaves alone
pipeline == <<args, graph, chain, doc, graph2, foreign, foreignChain,
              credGraph, records, credDoc, credGraph2>>

\* seedGadget.fromRaw(address)
SeedFromRaw ==
  /\ pc = "call"
  /\ call.fn = "seedGadget.fromRaw"
  /\ ret' = seedFromRaw(call.arg)
  /\ pc' = "returned"
  /\ UNCHANGED <<pipeline, call>>

\* accumulatorGadget.fromRaw(address)
AccumulatorFromRaw ==
  /\ pc = "call"
  /\ call.fn = "accumulatorGadget.fromRaw"
  /\ ret' = accumulatorFromRaw(call.arg)
  /\ pc' = "returned"
  /\ UNCHANGED <<pipeline, call>>

\* epochGadget.fromRaw(address)
EpochFromRaw ==
  /\ pc = "call"
  /\ call.fn = "epochGadget.fromRaw"
  /\ ret' = epochFromRaw(call.arg)
  /\ pc' = "returned"
  /\ UNCHANGED <<pipeline, call>>

\* addEdge(edge) on a builder that holds no edge yet
AddEdge ==
  /\ pc = "call"
  /\ call.fn = "addEdge"
  /\ ret' = addEdge(NewBuilder, call.arg)
  /\ pc' = "returned"
  /\ UNCHANGED <<pipeline, call>>

\* parser.parseOrThrow(raw)
ParseConfig ==
  /\ pc = "call"
  /\ call.fn = "parser.parseOrThrow"
  /\ ret' = parser(call.arg)
  /\ pc' = "returned"
  /\ UNCHANGED <<pipeline, call>>

\* MarkovProcessGraph.new(args) on a graph that may yield a node twice
NewOnYielded ==
  /\ pc = "call"
  /\ call.fn = "MarkovProcessGraph.new"
  /\ ret' = New(call.arg)
  /\ pc' = "returned"
  /\ UNCHANGED <<pipeline, call>>

Next ==
  \/ Build
  \/ Export
  \/ Encode
  \/ Decode
  \/ DecodeForeign
  \/ ExportForeign
  \/ BindScores
  \/ Report
  \/ CredEncode
  \/ CredDecode
  \/ SeedFromRaw
  \/ AccumulatorFromRaw
  \/ EpochFromRaw
  \/ AddEdge
  \/ ParseConfig
  \/ NewOnYielded

Spec == Init /\ [][Next]_vars

\* ------------------------------------------------------------------------
\* Properties
\* ------------------------------------------------------------------------
Built == pc = "built"

\* the sum of the transition probabilities of the edges leaving a node
OutSum(g, address) ==
  LET out == SelectSeq(g.edges, LAMBDA e : e.src = address)
  IN  QSum([i \in 1..Len(out) |-> out[i].transitionProbability])

Tolerance == Q(1, 1000)

\* C1: in every built graph the transition probabilities of the edges
\* leaving a node of the node order sum to 1 within 10^-3, whatever the
\* kind of the node and the number of participants and intervals.
C1_OutMassIsOne ==
  Built =>
    \A a \in SeqToSet(nodeOrder(graph)) :
      QLe(QAbs(QSub(OutSum(graph, a), QOne)), Tolerance)

\* a graph of two participants and two intervals with contribution edges
\* in both directions was built
C1_Witness ==
  /\ Built
  /\ Len(graph.participants) = 2
  /\ Len(graph.epochBoundaries) = 4
  /\ \E i \in 1..Len(graph.edges) : graph.edges[i].reversed

\* the graphs agree on node order, edge order and on every edge
SameGraph(g, h) ==
  LET order == edgeOrder(g)
  IN  /\ nodeOrder(h) = nodeOrder(g)
      /\ edgeOrder(h) = order
      /\ \A a \in SeqToSet(order) : edge(h, a) = edge(g, a)

\* C2: encoding a built graph succeeds, decoding the document succeeds, and
\* the decoded graph has the node order, the edge order and, edge by edge,
\* the address, reversed flag, src, dst and transition probability of the
\* graph that was encoded.
C2_RoundTrip ==
  /\ (doc # None /\ graph2 = None => doc.err = "none")
  /\ (graph2 # None /\ credGraph = None =>
        graph2.err = "none" /\ SameGraph(graph, graph2))

\* a graph of several participants and intervals with a contribution edge
\* went through the codec
C2_Witness ==
  /\ pc = "decoded"
  /\ Len(graph.participants) = 2
  /\ Len(graph.epochBoundaries) = 4
  /\ \E i \in 1..Len(graph2.edges) : graph2.edges[i].reversed

\* C3: decoding the document of a cred graph succeeds and gives a cred
\* graph over the same chain with the same score for every node.
C3_CredRoundTrip ==
  credGraph2 # None =>
    /\ credGraph2.err = "none"
    /\ SameGraph(credGraph.mpg, credGraph2.mpg)
    /\ \A a \in SeqToSet(nodeOrder(credGraph.mpg)) :
         credGraph2.scores[a] = credGraph.scores[a]

\* the boundary b of the epoch that contains t: b <= t < the next boundary
ContainingBoundary(tb, t) ==
  CHOOSE b \in SeqToSet(tb) :
    b <= t /\ \A c \in SeqToSet(tb) : c <= t => c <= b

\* the endpoint of a contribution edge timestamped t, for the endpoint
\* address of the input edge
EpochEndpoint(address, t) ==
  IF \E i \in 1..Len(args.participants) : args.participants[i].address = address
  THEN epochToRaw([owner |-> scoringId(args.participants, address)[1],
                   epochStart |-> ContainingBoundary(graph.epochBoundaries, t)])
  ELSE address

\* C4: every contribution edge has for src and dst the ends of its input
\* edge, a scoring participant's end replaced by the participant's
\* user-epoch node of the epoch that contains the timestamp (an edge
\* timestamped at an interval's start belongs to the epoch starting there).
C4_EndpointInContainingEpoch ==
  Built =>
    \A i \in 1..Len(graphEdges(args)) :
      LET e == graphEdges(args)[i]
      IN  /\ e.forwards > 0 =>
               /\ edge(graph, <<"F">> \o e.address) # <<>>
               /\ edge(graph, <<"F">> \o e.address)[1].src = EpochEndpoint(e.src, e.timestampMs)
               /\ edge(graph, <<"F">> \o e.address)[1].dst = EpochEndpoint(e.dst, e.timestampMs)
          /\ e.backwards > 0 =>
               /\ edge(graph, <<"B">> \o e.address) # <<>>
               /\ edge(graph, <<"B">> \o e.address)[1].src = EpochEndpoint(e.dst, e.timestampMs)
               /\ edge(graph, <<"B">> \o e.address)[1].dst = EpochEndpoint(e.src, e.timestampMs)

\* C5: for every participant and every two consecutive time boundaries the
\* built graph has the forward webbing edge from the earlier user-epoch
\* node to the later one with probability gammaForward, and the backward
\* webbing edge the other way with probability gammaBackward.
C5_WebbingForEveryParticipant ==
  Built =>
    \A i \in 1..Len(graph.participants) :
      \A k \in 2..Len(graph.epochBoundaries) :
        LET addr == [thisStart |-> graph.epochBoundaries[k],
                     lastStart |-> graph.epochBoundaries[k - 1],
                     owner |-> graph.participants[i].id]
        IN  /\ forwardWebbingMarkovEdge(addr, args.parameters.gammaForward)
                 \in SeqToSet(graph.edges)
            /\ backwardWebbingMarkovEdge(addr, args.parameters.gammaBackward)
                 \in SeqToSet(graph.edges)

\* C6: the src and the dst of every edge of a built graph are addresses of
\* its node order.
C6_EndpointsAreNodes ==
  Built =>
    LET listed == SeqToSet(nodeOrder(graph))
    IN  \A i \in 1..Len(graph.edges) :
          /\ graph.edges[i].src \in listed
          /\ graph.edges[i].dst \in listed

\* a graph was built from an input with a dangling edge and with an edge
\* between a participant and a base node timestamped at an interval start
C6_Witness ==
  /\ Built
  /\ Len(graphEdges(args)) < Len(args.edges)
  /\ \E i \in 1..Len(args.edges) :
       /\ args.edges[i].src = P1
       /\ args.edges[i].timestampMs \in SeqToSet(graph.epochBoundaries)
       /\ P1 \in {graph.participants[j].address : j \in 1..Len(graph.participants)}

\* C7: the node order is the stored nodes sorted ascending by address, then
\* the seed, then one accumulator per time boundary in boundary order
\* (-Infinity, the interval starts, Infinity); a decoded graph has the node
\* order of the graph that was encoded.
C7_NodeOrder ==
  /\ Built =>
       LET order == nodeOrder(graph)
           n == Len(graph.nodes)
           tb == timeBoundaries(args.intervals)
       IN  /\ Len(order) = n + 1 + Len(tb)
           /\ {order[i] : i \in 1..n} = SeqToSet(nodeAddresses(graph))
           /\ \A i \in 1..(n - 1) : AddressLess(order[i], order[i + 1])
           /\ order[n + 1] = seedPrefix
           /\ \A k \in 1..Len(tb) :
                order[n + 1 + k] = accumulatorToRaw([epochStart |-> tb[k]])
  /\ pc = "decoded" => nodeOrder(graph2) = nodeOrder(graph)

\* a graph whose nodes were not inserted in address order went through the
\* codec: two participants, and the boundaries 5 and 10
C7_Witness ==
  /\ pc = "decoded"
  /\ graph.participants = <<U2, U1>>
  /\ graph.epochBoundaries = <<NegInf, 5, 10, PosInf>>

ParameterErrors == {"Invalid transition probability", "Overlarge transition probability"}

InUnitInterval(x) == QLe(QZero, x) /\ QLe(x, QOne)

ParametersInBudget(p) ==
  /\ InUnitInterval(p.alpha)
  /\ InUnitInterval(p.beta)
  /\ InUnitInterval(p.gammaForward)
  /\ InUnitInterval(p.gammaBackward)
  /\ QLe(QSum(<<p.alpha, p.beta, p.gammaForward, p.gammaBackward>>), QOne)

\* C8: the build fails on its parameters exactly when one of alpha, beta,
\* gammaForward, gammaBackward lies outside [0,1] or their sum exceeds 1;
\* a failed build returns no graph.
C8_ParameterValidation ==
  (graph # None /\ doc = None) =>
    /\ (graph.err \in ParameterErrors) = ~ParametersInBudget(args.parameters)
    /\ graph.err # "none" => graph.nodes = <<>> /\ graph.edges = <<>>

\* alpha = 0.5, beta = 0.5, gammaForward = 0.1, gammaBackward = 0 was
\* rejected
C8_Witness ==
  /\ pc = "failed"
  /\ args.parameters = Parameters(5, 5, 1, 0)
  /\ graph.err = "Overlarge transition probability"

\* the input is valid but for its mint: parameters within budget, finite
\* node weights that are not negative, no node under the core prefix, no
\* two participants under one id
OtherwiseValid(a) ==
  /\ ParametersInBudget(a.parameters)
  /\ \A i \in 1..Len(a.nodes) :
       /\ a.nodeWeights[a.nodes[i].address] >= 0
       /\ a.nodeWeights[a.nodes[i].address] # PosInf
       /\ ~hasPrefix(a.nodes[i].address, CORE_NODE_PREFIX)
  /\ \A i, j \in 1..Len(a.participants) :
       a.participants[i].id = a.participants[j].id => i = j

\* the weights of the input nodes that are not participants
BaseWeights(a) ==
  [i \in 1..Len(a.nodes) |->
     IF \E j \in 1..Len(a.participants) :
          a.participants[j].address = a.nodes[i].address
     THEN 0
     ELSE a.nodeWeights[a.nodes[i].address]]

RECURSIVE SumInts(_)
SumInts(s) == IF s = <<>> THEN 0 ELSE s[1] + SumInts(Tail(s))

\* C9: on an otherwise valid input the build fails with 'no outflow from
\* seed' exactly when the weights of the input nodes that are not
\* participants sum to zero; the weights of participants do not count.
C9_NoOutflowFromSeed ==
  (graph # None /\ doc = None /\ OtherwiseValid(args)) =>
    (graph.err = "No outflow from seed") = (SumInts(BaseWeights(args)) = 0)

\* the build failed for want of mint although a participant's node has
\* positive weight
C9_Witness ==
  /\ pc = "failed"
  /\ graph.err = "No outflow from seed"
  /\ args.participants = <<U1>>
  /\ args.nodeWeights[P1] > 0

\* C10: participants() yields one record per participant in participant
\* order; credPerEpoch has one entry per time boundary in boundary order,
\* the score of the participant's user-epoch node of that boundary times
\* beta, and cred is the sum of credPerEpoch.
C10_ParticipantCred ==
  (records # None /\ credDoc = None) =>
    /\ records.err = "none"
    /\ Len(records.out) = Len(args.participants)
    /\ \A i \in 1..Len(records.out) :
         LET r == records.out[i]
             p == args.participants[i]
             tb == timeBoundaries(args.intervals)
         IN  /\ r.id = p.id
             /\ r.address = p.address
             /\ Len(r.credPerEpoch) = Len(tb)
             /\ \A k \in 1..Len(tb) :
                  r.credPerEpoch[k] =
                    QMul(QInt(credGraph.scores[
                                epochToRaw([owner |-> p.id, epochStart |-> tb[k]])]),
                         args.parameters.beta)
             /\ r.cred = QSum(r.credPerEpoch)

\* two participants over two intervals were reported with some cred
C10_Witness ==
  /\ pc = "reported"
  /\ Len(records.out) = 2
  /\ Len(records.out[2].credPerEpoch) = 4
  /\ QLt(QZero, records.out[2].cred)

\* the nodes of the node order whose out-probabilities sum to a value more
\* than 10^-3 away from 1
OffTolerance(g) ==
  {a \in SeqToSet(nodeOrder(g)) :
     QLt(Tolerance, QAbs(QSub(OutSum(g, a), QOne)))}

\* C11: toMarkovChain returns a chain without error for every built graph,
\* and for a graph decoded from a document it raises the sum error, naming
\* a node whose out-probabilities are off, whenever some node of the node
\* order has out-probabilities summing to more than 10^-3 away from 1.
C11_SumCheck ==
  /\ chain # None => chain.err = "none"
  /\ foreignChain # None =>
       LET off == OffTolerance(foreign)
       IN  off # {} =>
             /\ foreignChain.err = "Transition weights do not sum to 1.0"
             /\ foreignChain.offender # <<>>
             /\ foreignChain.offender[1] \in off

\* the export of a decoded graph failed on a node whose out-probabilities
\* sum to less than 1, an edge being left out of the document
C11_Witness ==
  /\ pc = "foreignFailed"
  /\ Len(foreign.edges) < Len(graph.edges)
  /\ \E a \in OffTolerance(foreign) : QLt(OutSum(foreign, a), QOne)
  /\ chain.err = "none"

\* the number of entries of the chain
Entries(c) ==
  Cardinality(UNION {{<<i, j>> : j \in 1..Len(c[i].neighbor)} : i \in 1..Len(c)})

\* C12: the exported chain has the node order of the graph and one entry per
\* node; the entry of node i lists exactly the edges whose dst is node i,
\* each with the index of its src in the node order and its transition
\* probability, parallel edges as separate entries, so that the entries
\* number as many as the edges of the graph.
C12_ChainOfInEdges ==
  pc = "exported" =>
    LET order == nodeOrder(graph)
        es == graph.edges
        c == chain.chain
    IN  /\ chain.nodeOrder = order
        /\ Len(c) = Len(order)
        /\ Entries(c) = Len(es)
        /\ \A i \in 1..Len(order) :
             /\ Len(c[i].weight) = Len(c[i].neighbor)
             /\ \A j \in 1..Len(c[i].neighbor) :
                  \E k \in 1..Len(es) :
                    /\ es[k].dst = order[i]
                    /\ c[i].neighbor[j] + 1 \in 1..Len(order)
                    /\ order[c[i].neighbor[j] + 1] = es[k].src
                    /\ c[i].weight[j] = es[k].transitionProbability
             /\ \A k \in 1..Len(es) :
                  es[k].dst = order[i] =>
                    Cardinality({j \in 1..Len(c[i].neighbor) :
                                   /\ order[c[i].neighbor[j] + 1] = es[k].src
                                   /\ c[i].weight[j] = es[k].transitionProbability})
                    = Cardinality({m \in 1..Len(es) :
                                     /\ es[m].dst = order[i]
                                     /\ es[m].src = es[k].src
                                     /\ es[m].transitionProbability
                                          = es[k].transitionProbability})

\* the chain of a graph with two parallel contribution edges of the same
\* probability between a user-epoch node and a base node was exported
C12_Witness ==
  /\ pc = "exported"
  /\ \E i, k \in 1..Len(graph.edges) :
       /\ i # k
       /\ graph.edges[i].src = graph.edges[k].src
       /\ graph.edges[i].dst = graph.edges[k].dst
       /\ graph.edges[i].transitionProbability = graph.edges[k].transitionProbability
       /\ hasPrefix(graph.edges[i].src, epochPrefix)
       /\ graph.edges[i].dst = A

\* the addresses of the user-epoch nodes of a graph
UserEpochAddresses(g) ==
  {g.nodes[i].address : i \in 1..Len(g.nodes)} \cap
  {a \in SeqToSet(nodeOrder(g)) : hasPrefix(a, epochPrefix)}

\* the node has an out-edge of this kind (the part of the edge address
\* after the core prefix) with this probability
HasOutEdge(g, a, kind, pr) ==
  \E i \in 1..Len(g.edges) :
    /\ g.edges[i].src = a
    /\ hasPrefix(g.edges[i].address, CORE_EDGE_PREFIX \o <<kind>>)
    /\ g.edges[i].transitionProbability = pr

MinimalBuilt == Built /\ args \in MinimalInputs

\* C13 as stated: in the minimal scenario the built graph has exactly two
\* user-epoch nodes, each with a payout edge of probability 0.3 and a
\* radiation edge of probability 0.5.
C13_TwoUserEpochNodes ==
  MinimalBuilt =>
    /\ Cardinality(UserEpochAddresses(graph)) = 2
    /\ \A a \in UserEpochAddresses(graph) :
         /\ HasOutEdge(graph, a, "PAYOUT", Tenths(3))
         /\ HasOutEdge(graph, a, "EPOCH_RADIATION", Tenths(5))

\* C13 amended: in the minimal scenario the built graph has exactly three
\* user-epoch nodes, one per time boundary (-Infinity, 0, Infinity), each
\* with a payout edge of probability 0.3; the radiation edge of the node
\* of boundary 0 has probability 0.5 and those of the two others 0.6.
C13_ThreeUserEpochNodes ==
  MinimalBuilt =>
    /\ UserEpochAddresses(graph) =
         {epochToRaw([owner |-> "u1", epochStart |-> b]) : b \in {NegInf, 0, PosInf}}
    /\ Cardinality(UserEpochAddresses(graph)) = 3
    /\ \A b \in {NegInf, 0, PosInf} :
         LET a == epochToRaw([owner |-> "u1", epochStart |-> b])
         IN  /\ HasOutEdge(graph, a, "PAYOUT", Tenths(3))
             /\ HasOutEdge(graph, a, "EPOCH_RADIATION",
                           IF b = 0 THEN Tenths(5) ELSE Tenths(6))

\* the graph of the minimal scenario was built
C13_Witness ==
  /\ MinimalBuilt
  /\ graph.epochBoundaries = <<NegInf, 0, PosInf>>
  /\ Len(graph.participants) = 1

\* the number of directions of positive weight of the input edges from i on
\* that are not dangling
RECURSIVE CandidatesFrom(_, _)
CandidatesFrom(a, i) ==
  IF i > Len(a.edges) THEN 0
  ELSE LET e == a.edges[i]
           inputAddresses == {a.nodes[k].address : k \in 1..Len(a.nodes)}
           here == IF e.src \in inputAddresses /\ e.dst \in inputAddresses
                   THEN (IF e.forwards > 0 THEN 1 ELSE 0)
                        + (IF e.backwards > 0 THEN 1 ELSE 0)
                   ELSE 0
       IN  here + CandidatesFrom(a, i + 1)

\* the structural edge count of the claim, for P participants, B time
\* boundaries, N base nodes of which M have a positive mint
StructuralEdgeCount(np, nb, nn, nm) ==
  np * nb + 2 * np * (nb - 1) + nm + (nn + np * nb + nb)

\* the number of edges of the graph, less its contribution edges, that
\* the claim states
ClaimedEdgeCount(a, g) ==
  LET np == Len(a.participants)
      nb == Len(a.intervals) + 2
      base == {i \in 1..Len(g.nodes) : ~hasPrefix(g.nodes[i].address, CORE_NODE_PREFIX)}
      minting == {i \in base : g.nodes[i].mint > 0}
  IN  CandidatesFrom(a, 1)
      + StructuralEdgeCount(np, nb, Cardinality(base), Cardinality(minting))

\* C14: a built graph has as many edges as the input edges that are not
\* dangling have directions of positive weight, plus P*B payout edges,
\* 2*P*(B-1) webbing edges, one seed-mint edge per node with mint > 0 and
\* one radiation edge per node other than the seed (N + P*B + B).
C14_EdgeCount ==
  Built => Len(graph.edges) = ClaimedEdgeCount(args, graph)

\* the prefix of the gadget a call is made on
GadgetPrefix(fn) ==
  IF fn = "seedGadget.fromRaw" THEN seedPrefix
  ELSE IF fn = "accumulatorGadget.fromRaw" THEN accumulatorPrefix
  ELSE epochPrefix

\* the addresses the gadget's toRaw produces
MadeBy(fn) ==
  IF fn = "seedGadget.fromRaw" THEN {seedPrefix}
  ELSE IF fn = "accumulatorGadget.fromRaw"
  THEN {accumulatorToRaw([epochStart |-> b]) : b \in Boundaries}
  ELSE {epochToRaw([owner |-> o, epochStart |-> b]) : o \in {"u1", "u2"}, b \in Boundaries}

GadgetReturned ==
  /\ pc = "returned"
  /\ call.fn \in {"seedGadget.fromRaw", "accumulatorGadget.fromRaw", "epochGadget.fromRaw"}

\* C15: fromRaw of the seed, the accumulator and the user-epoch gadget
\* raises an error on an address that has not the gadget's prefix, and
\* raises none on an address the gadget's toRaw produced.
C15_FromRawChecksPrefix ==
  GadgetReturned =>
    /\ ~hasPrefix(call.arg, GadgetPrefix(call.fn)) => ret.err # "none"
    /\ call.arg \in MadeBy(call.fn) => ret.err = "none"

\* the addresses of the scoring participants
ScoringAddresses(a) == {a.participants[i].address : i \in 1..Len(a.participants)}

\* the end of a contribution edge stands for this end of its input edge: a
\* user-epoch node of the participant if the end is a participant's
\* address, the address itself otherwise
StandsFor(a, end, address) ==
  IF address \in ScoringAddresses(a)
  THEN /\ hasPrefix(end, epochPrefix)
       /\ Len(end) = Len(epochPrefix) + 2
       /\ <<end[Len(end)]>> = scoringId(a.participants, address)
  ELSE end = address

\* C16: no node of a built graph has the address of a scoring participant
\* and no edge has one as its src or dst; an end of an input edge that is
\* a participant's address appears as a user-epoch node of that
\* participant.
C16_NoParticipantAddress ==
  Built =>
    /\ \A i \in 1..Len(graph.nodes) :
         graph.nodes[i].address \notin ScoringAddresses(args)
    /\ \A a \in SeqToSet(nodeOrder(graph)) : a \notin ScoringAddresses(args)
    /\ \A i \in 1..Len(graph.edges) :
         /\ graph.edges[i].src \notin ScoringAddresses(args)
         /\ graph.edges[i].dst \notin ScoringAddresses(args)
    /\ \A k \in 1..Len(args.edges) :
         \A i \in 1..Len(graph.edges) :
           graph.edges[i].address = args.edges[k].address =>
             IF graph.edges[i].reversed
             THEN /\ StandsFor(args, graph.edges[i].src, args.edges[k].dst)
                  /\ StandsFor(args, graph.edges[i].dst, args.edges[k].src)
             ELSE /\ StandsFor(args, graph.edges[i].src, args.edges[k].src)
                  /\ StandsFor(args, graph.edges[i].dst, args.edges[k].dst)

\* a graph was built over an input edge between two participants and one
\* between a participant and a base node
C16_Witness ==
  /\ Built
  /\ Len(args.participants) = 2
  /\ \E k \in 1..Len(args.edges) :
       args.edges[k].src = P1 /\ args.edges[k].dst = P2
  /\ \E k \in 1..Len(args.edges) :
       args.edges[k].src = P1 /\ args.edges[k].dst = A
  /\ \E i \in 1..Len(graph.edges) :
       /\ hasPrefix(graph.edges[i].src, epochPrefix)
       /\ hasPrefix(graph.edges[i].dst, epochPrefix)
       /\ graph.edges[i].reversed

\* C17: every edge of a built graph has a transition probability within
\* [0,1]; addEdge on an edge whose probability is outside fails and adds
\* no edge, and a build that failed returns no graph.
C17_ProbabilityInUnitInterval ==
  /\ Built =>
       \A i \in 1..Len(graph.edges) :
         InUnitInterval(graph.edges[i].transitionProbability)
  /\ (graph # None /\ graph.err # "none") =>
       graph.nodes = <<>> /\ graph.edges = <<>>
  /\ (pc = "returned" /\ call.fn = "addEdge") =>
       IF InUnitInterval(call.arg.transitionProbability)
       THEN ret.err = "none" /\ ret.edges = <<call.arg>>
       ELSE ret.err = "Invalid transition probability for edge" /\ ret.edges = <<>>

\* addEdge refused an edge of probability 1.1
C17_Witness ==
  /\ pc = "returned"
  /\ call.fn = "addEdge"
  /\ call.arg.transitionProbability = Tenths(11)
  /\ ret.err # "none"

\* the configuration has the value of its type in every field it has
WellTyped(c) ==
  \A f \in DOMAIN c :
    c[f].type = (IF f = "guildId" THEN "string" ELSE "object")
    /\ \A e \in c[f].entries : e[2] = "number"

\* C18: the parser accepts a configuration of guildId and reactionWeights
\* alone and returns a value equal to it, as it does for a configuration of
\* all four fields.
C18_BasicConfig ==
  (/\ pc = "returned"
   /\ call.fn = "parser.parseOrThrow"
   /\ WellTyped(call.arg)
   /\ DOMAIN call.arg \in {{"guildId", "reactionWeights"}, SeqToSet(configFields)}) =>
    ret.err = "none" /\ ret.value = call.arg

\* the edge is a webbing edge, forward or backward
IsWebbing(e) ==
  \/ hasPrefix(e.address, CORE_EDGE_PREFIX \o <<"EPOCH_WEBBING_FORWARD">>)
  \/ hasPrefix(e.address, CORE_EDGE_PREFIX \o <<"EPOCH_WEBBING_BACKWARD">>)

\* the two boundaries follow one another in the sequence of boundaries
Consecutive(tb, x, y) ==
  \E k \in 1..(Len(tb) - 1) :
    \/ tb[k] = x /\ tb[k + 1] = y
    \/ tb[k] = y /\ tb[k + 1] = x

\* C19: every webbing edge of a built graph joins two distinct user-epoch
\* nodes of one participant whose epoch starts are consecutive time
\* boundaries; none is a self-loop, and no backward webbing edge leaves a
\* user-epoch node of the first boundary.
C19_WebbingJoinsConsecutiveEpochs ==
  Built =>
    \A i \in 1..Len(graph.edges) :
      LET e == graph.edges[i]
          from == epochFromRaw(e.src)
          to == epochFromRaw(e.dst)
      IN  IsWebbing(e) =>
            /\ e.src # e.dst
            /\ from.err = "none" /\ to.err = "none"
            /\ from.owner = to.owner
            /\ Consecutive(graph.epochBoundaries, from.epochStart, to.epochStart)
            /\ hasPrefix(e.address, CORE_EDGE_PREFIX \o <<"EPOCH_WEBBING_BACKWARD">>)
                 => from.epochStart # NegInf

\* the edge is a contribution edge: its address is not a gadget's
IsContribution(e) == ~hasPrefix(e.address, CORE_EDGE_PREFIX)

\* the weight of the direction of input edge k that leaves its src
\* (reversed: its dst), 0 if the edge is dangling
DirectionWeight(a, k, reversed) ==
  LET inputAddresses == {a.nodes[n].address : n \in 1..Len(a.nodes)}
      e == a.edges[k]
  IN  IF e.src \notin inputAddresses \/ e.dst \notin inputAddresses THEN 0
      ELSE IF reversed THEN e.backwards ELSE e.forwards

\* the node the direction leaves, a participant's address rewritten
DirectionSource(a, tb, k, reversed) ==
  rewriteEpochNode(a.participants, tb,
                   IF reversed THEN a.edges[k].dst ELSE a.edges[k].src,
                   a.edges[k].timestampMs)

\* the total weight of the positive directions of the input edges from k
\* on that leave s
RECURSIVE WeightUnder(_, _, _, _)
WeightUnder(a, tb, s, k) ==
  IF k > Len(a.edges) THEN 0
  ELSE (IF DirectionSource(a, tb, k, FALSE) = s /\ DirectionWeight(a, k, FALSE) > 0
        THEN DirectionWeight(a, k, FALSE) ELSE 0)
       + (IF DirectionSource(a, tb, k, TRUE) = s /\ DirectionWeight(a, k, TRUE) > 0
          THEN DirectionWeight(a, k, TRUE) ELSE 0)
       + WeightUnder(a, tb, s, k + 1)

\* the budget of the contribution edges of a source
Budget(a, s) ==
  IF hasPrefix(s, epochPrefix)
  THEN QSub(QOne, QSum(<<a.parameters.alpha, a.parameters.beta,
                         a.parameters.gammaForward, a.parameters.gammaBackward>>))
  ELSE QSub(QOne, a.parameters.alpha)

\* the sum of the probabilities of the contribution edges that leave s
ContributionSum(es, s) ==
  LET out == SelectSeq(es, LAMBDA e : e.src = s /\ IsContribution(e))
  IN  QSum([i \in 1..Len(out) |-> out[i].transitionProbability])

\* C20: every positive direction of an input edge that is not dangling is
\* a contribution edge of probability (weight / W) * B, W the total weight
\* of the directions grouped under its rewritten source and B the budget
\* of that source: 1 - alpha - beta - gammaForward - gammaBackward for a
\* user-epoch node, 1 - alpha for any other; the contribution edges of
\* each source sum to B, separately for each epoch of a participant.
C20_ContributionProbability ==
  Built =>
    LET tb == timeBoundaries(args.intervals)
    IN  /\ \A k \in 1..Len(args.edges) : \A r \in BOOLEAN :
             DirectionWeight(args, k, r) > 0 =>
               LET s == DirectionSource(args, tb, k, r)
                   found == edge(graph, <<IF r THEN "B" ELSE "F">> \o args.edges[k].address)
               IN  /\ found # <<>>
                   /\ found[1].src = s
                   /\ found[1].transitionProbability =
                        QMul(Q(DirectionWeight(args, k, r), WeightUnder(args, tb, s, 1)),
                             Budget(args, s))
                   /\ ContributionSum(graph.edges, s) = Budget(args, s)
        /\ \A i \in 1..Len(graph.edges) :
             IsContribution(graph.edges[i]) =>
               \E k \in 1..Len(args.edges) :
                 /\ args.edges[k].address = graph.edges[i].address
                 /\ DirectionWeight(args, k, graph.edges[i].reversed) > 0

\* a graph was built in which two user-epoch nodes of one participant and
\* a base node each have contribution edges
C20_Witness ==
  /\ Built
  /\ \E i, k, m \in 1..Len(graph.edges) :
       /\ IsContribution(graph.edges[i])
       /\ IsContribution(graph.edges[k])
       /\ IsContribution(graph.edges[m])
       /\ hasPrefix(graph.edges[i].src, epochPrefix)
       /\ hasPrefix(graph.edges[k].src, epochPrefix)
       /\ graph.edges[i].src # graph.edges[k].src
       /\ epochFromRaw(graph.edges[i].src).owner = epochFromRaw(graph.edges[k].src).owner
       /\ graph.edges[m].src = A

\* a radiation edge: one made by one of the three radiation gadgets
IsRadiation(e) ==
  \E kind \in {"CONTRIBUTION_RADIATION", "EPOCH_RADIATION",
                "EPOCH_ACCUMULATOR_RADIATION"} :
    hasPrefix(e.address, CORE_EDGE_PREFIX \o <<kind>>)

\* the indices of the radiation edges that leave a node
RadiationFrom(g, a) ==
  {i \in 1..Len(g.edges) : g.edges[i].src = a /\ IsRadiation(g.edges[i])}

\* the sum of the probabilities of the edges leaving a node that are not
\* radiation edges
OtherOutSum(g, a) ==
  LET out == SelectSeq(g.edges, LAMBDA e : e.src = a /\ ~IsRadiation(e))
  IN  QSum([i \in 1..Len(out) |-> out[i].transitionProbability])

\* C21: in every built graph each node of the node order other than the
\* seed has exactly one radiation edge, which goes to the seed with
\* probability 1 minus the sum of the node's other out-probabilities (1 for
\* a base node without contribution out-edges); the seed has none.
C21_OneRadiationEdge ==
  Built =>
    \A a \in SeqToSet(nodeOrder(graph)) :
      IF a = seedPrefix THEN RadiationFrom(graph, a) = {}
      ELSE /\ Cardinality(RadiationFrom(graph, a)) = 1
           /\ \A i \in RadiationFrom(graph, a) :
                /\ graph.edges[i].dst = seedPrefix
                /\ graph.edges[i].transitionProbability =
                     QSub(QOne, OtherOutSum(graph, a))
                /\ (/\ ~hasPrefix(a, CORE_NODE_PREFIX)
                    /\ ~\E k \in 1..Len(graph.edges) :
                          graph.edges[k].src = a /\ IsContribution(graph.edges[k]))
                   => graph.edges[i].transitionProbability = QOne

\* a graph was built with user-epoch nodes and accumulators, a base node
\* that has a contribution out-edge and radiates less than 1, and a base
\* node that has none and radiates 1
C21_Witness ==
  /\ Built
  /\ Len(graph.participants) = 2
  /\ \E i, k \in 1..Len(graph.edges) :
       /\ graph.edges[i].src = A
       /\ IsRadiation(graph.edges[i])
       /\ QLt(graph.edges[i].transitionProbability, QOne)
       /\ graph.edges[k].src = B
       /\ IsRadiation(graph.edges[k])
       /\ graph.edges[k].transitionProbability = QOne
  /\ \E i \in 1..Len(graph.edges) :
       /\ hasPrefix(graph.edges[i].src, accumulatorPrefix)
       /\ IsRadiation(graph.edges[i])

\* the indices of the edges that leave the seed
SeedOut(g) == {i \in 1..Len(g.edges) : g.edges[i].src = seedPrefix}

\* the total mint of the nodes of the graph that mint
TotalMint(g) ==
  LET minting == SelectSeq(g.nodes, LAMBDA n : n.mint > 0)
  IN  SumInts([i \in 1..Len(minting) |-> minting[i].mint])

\* C22: in every built graph the edges that leave the seed are exactly one
\* seed-mint edge per node with mint > 0, to that node, with probability
\* mint / total mint; a node with mint 0 gets none, and neither does a
\* user-epoch node, an accumulator or the seed.
C22_SeedMintEdges ==
  Built =>
    /\ \A i \in SeedOut(graph) :
         /\ graph.edges[i].address =
              CORE_EDGE_PREFIX \o <<"SEED_MINT">> \o graph.edges[i].dst
         /\ ~hasPrefix(graph.edges[i].dst, CORE_NODE_PREFIX)
         /\ \E n \in 1..Len(graph.nodes) :
              /\ graph.nodes[n].address = graph.edges[i].dst
              /\ graph.nodes[n].mint > 0
              /\ graph.edges[i].transitionProbability[1] * TotalMint(graph)
                   = graph.nodes[n].mint * graph.edges[i].transitionProbability[2]
    /\ \A n \in 1..Len(graph.nodes) :
         Cardinality({i \in SeedOut(graph) :
                       graph.edges[i].dst = graph.nodes[n].address})
           = IF graph.nodes[n].mint > 0 THEN 1 ELSE 0

\* a graph was built in which two base nodes mint different amounts, a
\* third mints nothing, and there are user-epoch nodes
C22_Witness ==
  /\ Built
  /\ graph.participants # <<>>
  /\ Cardinality(SeedOut(graph)) = 2
  /\ \E i, k \in SeedOut(graph) :
       /\ QLt(graph.edges[i].transitionProbability,
              graph.edges[k].transitionProbability)
  /\ \E n \in 1..Len(graph.nodes) :
       /\ ~hasPrefix(graph.nodes[n].address, CORE_NODE_PREFIX)
       /\ graph.nodes[n].mint = 0

\* two participants of the input have the same id
SharedId(a) ==
  \E i, j \in 1..Len(a.participants) :
    i # j /\ a.participants[i].id = a.participants[j].id

\* the input graph yields the address of a node that is not a participant's
\* twice
YieldedTwice(a) ==
  \E i, j \in 1..Len(a.nodes) :
    /\ i # j
    /\ a.nodes[i].address = a.nodes[j].address
    /\ a.nodes[i].address \notin ScoringAddresses(a)

\* the input is valid up to the nodes it adds: parameters within budget,
\* node weights finite and not negative, no node under the core prefix
ValidBeforeNodes(a) ==
  /\ ParametersInBudget(a.parameters)
  /\ \A i \in 1..Len(a.nodes) :
       /\ a.nodeWeights[a.nodes[i].address] >= 0
       /\ a.nodeWeights[a.nodes[i].address] # PosInf
       /\ ~hasPrefix(a.nodes[i].address, CORE_NODE_PREFIX)

\* the build of these arguments failed on a node conflict and gave no graph
NodeConflict(a, g) ==
  (ValidBeforeNodes(a) /\ (SharedId(a) \/ YieldedTwice(a)))
    => g.err = "Node conflict" /\ g.nodes = <<>> /\ g.edges = <<>>

\* C23: the build fails with a node conflict, and gives no graph, when two
\* participants have the same id or when the input graph yields the address
\* of a node that is not a participant's twice (the input being valid up to
\* there); without either there is no node conflict, and a graph that was
\* built holds no address twice.
C23_NodeConflict ==
  /\ pc \in {"built", "failed"} /\ chain = None
       => /\ NodeConflict(args, graph)
          /\ pc = "built" =>
               \A i, j \in 1..Len(graph.nodes) :
                 graph.nodes[i].address = graph.nodes[j].address => i = j
  /\ pc = "returned" /\ call.fn = "MarkovProcessGraph.new"
       => /\ NodeConflict(call.arg, ret)
          /\ ret.err = "Node conflict" => YieldedTwice(call.arg)
          /\ ret.err = "none" =>
               \A i, j \in 1..Len(ret.nodes) :
                 ret.nodes[i].address = ret.nodes[j].address => i = j

\* a build failed on two participants under one id
C23_WitnessSharedId ==
  /\ pc = "failed"
  /\ chain = None
  /\ SharedId(args)
  /\ ValidBeforeNodes(args)
  /\ graph.err = "Node conflict"

\* a build failed on a base node that the graph yielded twice, the second
\* time after another node
C23_Witness ==
  /\ pc = "returned"
  /\ call.fn = "MarkovProcessGraph.new"
  /\ call.arg.nodes[1].address = call.arg.nodes[3].address
  /\ call.arg.participants # <<>>
  /\ ret.err = "Node conflict"

\* a build went through although the graph yielded the node of a
\* participant twice, which is skipped and is no conflict
C23_WitnessSkipped ==
  /\ pc = "returned"
  /\ call.fn = "MarkovProcessGraph.new"
  /\ call.arg.nodes[2].address = call.arg.nodes[3].address
  /\ call.arg.participants # <<>>
  /\ ret.err = "none"

\* the addresses looked up: those of the gadgets, and addresses under the
\* seed prefix and the accumulator prefix that no gadget makes
LookupAddresses ==
  GadgetAddresses \cup {seedPrefix \o <<"x">>, accumulatorPrefix \o <<"x">>}

\* C24: on a built graph node(addr) is not null exactly when addr is in the
\* node order, and the node it returns has the address addr, also for
\* addresses under the seed prefix or the accumulator prefix.
C24_NodeMatchesNodeOrder ==
  Built =>
    \A a \in LookupAddresses :
      /\ node(graph, a) # <<>> <=> a \in SeqToSet(nodeOrder(graph))
      /\ node(graph, a) # <<>> => node(graph, a)[1].address = a

\* C25: for every node that CredGraph.nodes() yields, the seed and the
\* accumulators included, CredGraph.node of its address returns a record
\* with the same fields and the same cred.
C25_NodeAgreesWithNodes ==
  credGraph # None =>
    \A i \in 1..Len(credNodes(credGraph)) :
      credNode(credGraph, credNodes(credGraph)[i].address)
        = <<credNodes(credGraph)[i]>>

\* a payout edge: one made by the payout gadget
IsPayout(e) == hasPrefix(e.address, CORE_EDGE_PREFIX \o <<"PAYOUT">>)

\* the indices of the edges that enter, and that leave, a node
InEdges(g, a) == {i \in 1..Len(g.edges) : g.edges[i].dst = a}
OutEdges(g, a) == {i \in 1..Len(g.edges) : g.edges[i].src = a}

\* C26: in every built graph the in-edges of the accumulator of a boundary
\* b are exactly the payout edges of the user-epoch nodes (p.id, b), one per
\* participant, each with probability beta; its only out-edge is a
\* radiation edge to the seed with probability 1; and every user-epoch node
\* has exactly one payout edge, to the accumulator of its own boundary.
C26_AccumulatorEdges ==
  Built =>
    /\ \A k \in 1..Len(graph.epochBoundaries) :
         LET b == graph.epochBoundaries[k]
             acc == accumulatorToRaw([epochStart |-> b])
         IN  /\ \A i \in InEdges(graph, acc) :
                  /\ IsPayout(graph.edges[i])
                  /\ graph.edges[i].transitionProbability = args.parameters.beta
                  /\ \E j \in 1..Len(graph.participants) :
                       graph.edges[i].src =
                         epochToRaw([owner |-> graph.participants[j].id,
                                     epochStart |-> b])
             /\ \A j \in 1..Len(graph.participants) :
                  Cardinality({i \in InEdges(graph, acc) :
                                 graph.edges[i].src =
                                   epochToRaw([owner |-> graph.participants[j].id,
                                               epochStart |-> b])}) = 1
             /\ Cardinality(OutEdges(graph, acc)) = 1
             /\ \A i \in OutEdges(graph, acc) :
                  /\ IsRadiation(graph.edges[i])
                  /\ graph.edges[i].dst = seedPrefix
                  /\ graph.edges[i].transitionProbability = QOne
    /\ \A a \in UserEpochAddresses(graph) :
         LET payouts == {i \in OutEdges(graph, a) : IsPayout(graph.edges[i])}
         IN  /\ Cardinality(payouts) = 1
             /\ \A i \in payouts :
                  graph.edges[i].dst =
                    accumulatorToRaw([epochStart |-> epochFromRaw(a).epochStart])

\* a graph was built with two participants and three boundaries, so that
\* the accumulator of the interval's start has two payout edges coming in
C26_Witness ==
  /\ Built
  /\ Len(graph.participants) = 2
  /\ Len(graph.epochBoundaries) = 3
  /\ Cardinality(InEdges(graph,
                         accumulatorToRaw([epochStart |-> graph.epochBoundaries[2]]))) = 2
  /\ QLt(QZero, args.parameters.beta)

\* the sum of the cred flows of the edges of the cred graph that leave a
\* node, each edge of the graph being yielded once
CredFlowOut(cg, a) ==
  LET out == SelectSeq(cg.mpg.edges, LAMBDA e : e.src = a)
  IN  QSum([i \in 1..Len(out) |-> withCredFlow(cg, out[i]).credFlow])

\* C27: in a cred graph over a built graph, whatever the scores, the cred
\* flows of the edges leaving a node sum to the cred of the node within
\* 10^-3, for every node of the node order.
C27_CredFlowConserved ==
  (credGraph # None /\ records = None) =>
    \A a \in SeqToSet(nodeOrder(credGraph.mpg)) :
      QLe(QAbs(QSub(CredFlowOut(credGraph, a), QInt(cred(credGraph, a)))),
          Tolerance)

\* scores were bound to a graph with user-epoch nodes in which a node with
\* cred has several edges leaving it
C27_Witness ==
  /\ credGraph # None
  /\ records = None
  /\ credGraph.mpg.participants # <<>>
  /\ \E a \in SeqToSet(nodeOrder(credGraph.mpg)) :
       /\ cred(credGraph, a) > 0
       /\ Cardinality(OutEdges(credGraph.mpg, a)) > 2
       /\ QLt(QZero, CredFlowOut(credGraph, a))

====
